---- MODULE Spec2Model ----
(***************************************************************************)
(* A model of the JSON lexer and recursive-descent parser of               *)
(* json_parser_lld (tokenizer.py, parser_ref.py, models.py,                *)
(* exceptions_ref.py), and of the parser of parser.py.                     *)
(*                                                                         *)
(* Characters are Unicode code points (integers), a Python str is a        *)
(* sequence of code points.  Python's 0-based index json_string[pos] is    *)
(* the element json_string[pos + 1] of the sequence.                       *)
(***************************************************************************)
EXTENDS Integers, Sequences, FiniteSets, TLC

\* None where a JsonValue is held: no tree has been returned yet.
NoValue == [cls |-> "None"]

(***************************************************************************)
(* Characters                                                              *)
(***************************************************************************)

\* The printable ASCII characters in code point order, 32 (space) first
\* (the grave accent, 96, is written by name).
Printable ==
    << " ", "!", "\"", "#", "$", "%", "&", "'", "(", ")", "*", "+", ",", "-",
       ".", "/", "0", "1", "2", "3", "4", "5", "6", "7", "8", "9", ":", ";",
       "<", "=", ">", "?", "@", "A", "B", "C", "D", "E", "F", "G", "H", "I",
       "J", "K", "L", "M", "N", "O", "P", "Q", "R", "S", "T", "U", "V", "W",
       "X", "Y", "Z", "[", "\\", "]", "^", "_", "GRAVE", "a", "b", "c", "d", "e",
       "f", "g", "h", "i", "j", "k", "l", "m", "n", "o", "p", "q", "r", "s",
       "t", "u", "v", "w", "x", "y", "z", "{", "|", "}", "~" >>

\* ord(c) of a printable ASCII character.
Ord == [c \in {Printable[i] : i \in 1..Len(Printable)} |->
            31 + (CHOOSE i \in 1..Len(Printable) : Printable[i] = c)]

\* A Python str literal, written as a tuple of one-character strings.
Str(cs) == [i \in 1..Len(cs) |-> Ord[cs[i]]]

BS == Ord["!"] - 25
TAB == Ord["!"] - 24
LF == Ord["!"] - 23
FF == Ord["!"] - 21
CR == Ord["!"] - 20
QUOTE == Ord["\""]
BACKSLASH == Ord["\\"]

\* A whitespace without the carriage return.
IsSpaceButCR(c) == c \in {9, 10, 11, 12, 28, 29, 30, 31, 32, 133, 160}

\* str.isspace(), for the code points below 2048.
IsSpace(c) == c \in {9, 10, 11, 12, 13, 28, 29, 30, 31, 32, 133, 160}

\* str.isdigit(), for the code points below 2048: the decimal digits of every
\* script and the superscript digits.
IsDigit(c) ==
    c \in (48..57) \cup {178, 179, 185} \cup (1632..1641) \cup (1776..1785)
          \cup (1984..1993)

\* The class \d of a str pattern of module re, for the code points below 2048:
\* the decimal digits (category Nd) of every script.
IsReDigit(c) ==
    c \in (48..57) \cup (1632..1641) \cup (1776..1785) \cup (1984..1993)

\* The value int() and float() give a decimal digit of any script.
DigitValue(c) ==
    IF c \in 48..57 THEN c - 48
    ELSE IF c \in 1632..1641 THEN c - 1632
    ELSE IF c \in 1776..1785 THEN c - 1776
    ELSE c - 1984

\* The class [0-9a-fA-F].
IsHex(c) == c \in (48..57) \cup (97..102) \cup (65..70)

\* The value int(_, 16) gives a hexadecimal digit.
HexValue(c) ==
    IF c \in 48..57 THEN c - 48
    ELSE IF c \in 97..102 THEN c - 87
    ELSE c - 55

(***************************************************************************)
(* Python objects: token payloads and the native values of to_native       *)
(***************************************************************************)

PyNone == [py |-> "NoneType"]
PyBool(b) == [py |-> "bool", v |-> b]
PyInt(n) == [py |-> "int", v |-> n]
\* A float is (-1)^neg * mant * 10^exp, mant without trailing zeros
\* (binary rounding and overflow to inf are outside the literals modelled).
PyFloat(neg, mant, exp) == [py |-> "float", neg |-> neg, mant |-> mant, exp |-> exp]
PyStr(s) == [py |-> "str", v |-> s]
PyList(xs) == [py |-> "list", v |-> xs]
\* A dict is the sequence of its <<key, value>> items in insertion order.
PyDict(items) == [py |-> "dict", v |-> items]

(***************************************************************************)
(* exceptions_ref.py                                                       *)
(***************************************************************************)

\* A message is its format, the names formatted into it and the input text
\* formatted into it.
Message(fmt, args, text) == [fmt |-> fmt, args |-> args, text |-> text]

MalformedJsonException(message, line, column) ==
    [kind |-> "MalformedJsonException", message |-> message,
     line |-> line, column |-> column]

UnexpectedTokenException(expected, actual, line, column) ==
    [kind |-> "UnexpectedTokenException",
     message |-> Message("Expected {}, but found {}", <<expected, actual>>, <<>>),
     line |-> line, column |-> column]

InvalidNumberException(value, line, column) ==
    [kind |-> "InvalidNumberException",
     message |-> Message("Invalid number format: '{}'", <<>>, value),
     line |-> line, column |-> column]

InvalidStringException(message, line, column) ==
    [kind |-> "InvalidStringException", message |-> message,
     line |-> line, column |-> column]

UnterminatedStringException(line, column) ==
    [kind |-> "UnterminatedStringException",
     message |-> Message("Unterminated string literal", <<>>, <<>>),
     line |-> line, column |-> column]

UnexpectedEndOfInputException(expected_token, line, column) ==
    [kind |-> "UnexpectedEndOfInputException",
     message |-> Message("Unexpected end of input, expected {}", <<expected_token>>, <<>>),
     line |-> line, column |-> column]

DuplicateKeyException(key, line, column) ==
    [kind |-> "DuplicateKeyException",
     message |-> Message("Duplicate key '{}' found in object", <<>>, key),
     line |-> line, column |-> column]

NoError == [kind |-> "None"]

(***************************************************************************)
(* tokenizer.py                                                            *)
(***************************************************************************)

Token(type, value, line, column) ==
    [type |-> type, value |-> value, line |-> line, column |-> column]

NoToken == [type |-> "None"]

\* Tokenizer.__init__; gen is the position of the generator tokenize():
\* "loop" (not started, or suspended at a yield of the loop), "eof" (suspended
\* at the last yield) or "closed" (returned or raised); resumed counts the
\* calls of next() on the generator and yielded the tokens it has yielded.
TokenizerInit(json_string) ==
    [json_string |-> json_string, pos |-> 0, line |-> 1, column |-> 1,
     length |-> Len(json_string), gen |-> "loop", resumed |-> 0, yielded |-> 0]

\* json_string[pos]
CharAt(tk, pos) == tk.json_string[pos + 1]

\* A step over a character that takes a line feed for any character.
AdvanceOneFlat(tk) == [tk EXCEPT !.column = @ + 1, !.pos = @ + 1]

\* Tokenizer._advance lines 52-57: one step over the character at pos.
AdvanceOne(tk) ==
    IF CharAt(tk, tk.pos) = LF
    THEN [tk EXCEPT !.line = @ + 1, !.column = 1, !.pos = @ + 1]
    ELSE [tk EXCEPT !.column = @ + 1, !.pos = @ + 1]

\* Tokenizer._advance(count)
RECURSIVE TkAdvance(_, _)
TkAdvance(tk, count) ==
    IF count = 0 \/ tk.pos >= tk.length THEN tk
    ELSE TkAdvance(AdvanceOne(tk), count - 1)

RECURSIVE SkipWhitespace(_)
SkipWhitespace(tk) ==
    IF tk.pos < tk.length /\ IsSpace(CharAt(tk, tk.pos))
    THEN SkipWhitespace(TkAdvance(tk, 1))
    ELSE tk

\* What a resumption of the generator, or a helper it calls, ends in.
Yield(token, tk) == [tag |-> "yield", token |-> token, error |-> NoError, tk |-> tk]
Raise(error, tk) == [tag |-> "raise", token |-> NoToken, error |-> error, tk |-> tk]
Stop(tk) == [tag |-> "stop", token |-> NoToken, error |-> NoError, tk |-> tk]

\* The character an escape \c stands for (tokenizer.py lines 91-106).
IsSimpleEscape(c) ==
    c \in {QUOTE, BACKSLASH, Ord["/"], Ord["b"], Ord["f"], Ord["n"], Ord["r"], Ord["t"]}

\* A decoding that keeps the character after the backslash.
EscapeCharKept(c) == c

EscapeChar(c) ==
    CASE c = QUOTE -> QUOTE
      [] c = BACKSLASH -> BACKSLASH
      [] c = Ord["/"] -> Ord["/"]
      [] c = Ord["b"] -> BS
      [] c = Ord["f"] -> FF
      [] c = Ord["n"] -> LF
      [] c = Ord["r"] -> CR
      [] c = Ord["t"] -> TAB

\* json_string[a:b], with Python's clipping of b to the length.
Slice(s, a, b) ==
    LET e == IF b > Len(s) THEN Len(s) ELSE b
    IN  IF e <= a THEN <<>> ELSE [i \in 1..(e - a) |-> s[a + i]]

\* A match of any four characters.
MatchAny4(hex_digits) == Len(hex_digits) = 4

\* re.fullmatch(r"[0-9a-fA-F]{4}", hex_digits)
MatchHex4(hex_digits) ==
    Len(hex_digits) = 4 /\ \A i \in 1..4 : IsHex(hex_digits[i])

\* int(hex_digits, 16)
RECURSIVE IntBase16(_)
IntBase16(ds) ==
    IF ds = <<>> THEN 0
    ELSE 16 * IntBase16(SubSeq(ds, 1, Len(ds) - 1)) + HexValue(ds[Len(ds)])

\* Tokenizer._read_string: the while loop (ReadStringLoop), the character it
\* reads (ReadStringChar, t1 the tokenizer after it), the escape after a
\* backslash (ReadEscape, t2 the tokenizer after it) and the four characters
\* after \u (ReadUnicode).
RECURSIVE ReadStringLoop(_, _, _, _)
RECURSIVE ReadStringChar(_, _, _, _, _)
RECURSIVE ReadEscape(_, _, _, _, _)
RECURSIVE ReadUnicode(_, _, _, _, _)

ReadUnicode(hex_digits, t2, value_chars, start_line, start_column) ==
    IF ~MatchHex4(hex_digits)
    THEN Raise(InvalidStringException(
                 Message("Invalid unicode escape sequence", <<>>, <<>>),
                 t2.line, t2.column), t2)
    ELSE ReadStringLoop(TkAdvance(t2, 4), Append(value_chars, IntBase16(hex_digits)),
                        start_line, start_column)

ReadEscape(escape_char, t2, value_chars, start_line, start_column) ==
    IF IsSimpleEscape(escape_char)
    THEN ReadStringLoop(t2, Append(value_chars, EscapeChar(escape_char)),
                        start_line, start_column)
    ELSE IF escape_char = Ord["u"] THEN
      IF t2.pos + 4 > t2.length
      THEN Raise(InvalidStringException(
                   Message("Invalid unicode escape sequence", <<>>, <<>>),
                   t2.line, t2.column), t2)
      ELSE ReadUnicode(Slice(t2.json_string, t2.pos, t2.pos + 4), t2, value_chars,
                       start_line, start_column)
    ELSE Raise(InvalidStringException(
                 Message("Invalid escape sequence: \\{}", <<>>, <<escape_char>>),
                 t2.line, t2.column - 1), t2)

ReadStringChar(char, t1, value_chars, start_line, start_column) ==
    IF char = BACKSLASH THEN
      IF t1.pos >= t1.length
      THEN Raise(UnterminatedStringException(start_line, start_column), t1)
      ELSE ReadEscape(CharAt(t1, t1.pos), TkAdvance(t1, 1), value_chars,
                      start_line, start_column)
    ELSE IF char = QUOTE
    THEN Yield(Token("STRING", PyStr(value_chars), start_line, start_column), t1)
    ELSE IF char = LF
    THEN Raise(UnterminatedStringException(start_line, start_column), t1)
    ELSE ReadStringLoop(t1, Append(value_chars, char), start_line, start_column)

ReadStringLoop(tk, value_chars, start_line, start_column) ==
    IF tk.pos >= tk.length
    THEN Raise(UnterminatedStringException(start_line, start_column), tk)
    ELSE ReadStringChar(CharAt(tk, tk.pos), TkAdvance(tk, 1), value_chars,
                        start_line, start_column)

\* A reading that takes the place after the opening quote for the start.
ReadStringFromBody(tk) ==
    ReadStringLoop(TkAdvance(tk, 1), <<>>, TkAdvance(tk, 1).line, TkAdvance(tk, 1).column)

\* Tokenizer._read_string, called with json_string[pos] the opening quote.
ReadString(tk) == ReadStringLoop(TkAdvance(tk, 1), <<>>, tk.line, tk.column)

\* The end of the run of characters of Tokenizer._read_number (lines 152-155).
RECURSIVE RunEnd(_, _)
RunEnd(tk, temp_pos) ==
    IF temp_pos < tk.length
       /\ (IsDigit(CharAt(tk, temp_pos))
           \/ CharAt(tk, temp_pos) \in {Ord["."], Ord["-"], Ord["+"], Ord["e"], Ord["E"]})
    THEN RunEnd(tk, temp_pos + 1)
    ELSE temp_pos

\* The first index from i on of s that holds no \d (Len(s) + 1 if none).
RECURSIVE SkipReDigits(_, _)
SkipReDigits(s, i) ==
    IF i <= Len(s) /\ IsReDigit(s[i]) THEN SkipReDigits(s, i + 1) ELSE i

\* re.fullmatch(r"^-?(?:0|[1-9]\d*)(?:\.\d+)?(?:[eE][+-]?\d+)?$", s), for an s
\* without line feed: the index after each part of the pattern, from the index
\* i after the part before it; 0 for no match.
AfterSign(s) == IF Len(s) >= 1 /\ s[1] = Ord["-"] THEN 2 ELSE 1

AfterInt(s, i) ==
    IF i > Len(s) THEN 0
    ELSE IF s[i] = Ord["0"] THEN i + 1
    ELSE IF s[i] \in Ord["1"]..Ord["9"] THEN SkipReDigits(s, i + 1)
    ELSE 0

AfterFrac(s, i) ==
    IF i = 0 THEN 0
    ELSE IF i + 1 <= Len(s) /\ s[i] = Ord["."] /\ IsReDigit(s[i + 1])
         THEN SkipReDigits(s, i + 1)
         ELSE i

\* The index of the first digit of the exponent that starts at i.
ExpDigitsAt(s, i) ==
    IF i + 1 <= Len(s) /\ s[i + 1] \in {Ord["+"], Ord["-"]} THEN i + 2 ELSE i + 1

AfterExp(s, i) ==
    IF i = 0 THEN 0
    ELSE IF i <= Len(s) /\ s[i] \in {Ord["e"], Ord["E"]}
            /\ ExpDigitsAt(s, i) <= Len(s) /\ IsReDigit(s[ExpDigitsAt(s, i)])
         THEN SkipReDigits(s, ExpDigitsAt(s, i))
         ELSE i

IntEnd(s) == AfterInt(s, AfterSign(s))
FracEnd(s) == AfterFrac(s, IntEnd(s))

MatchNumber(s) == AfterExp(s, FracEnd(s)) = Len(s) + 1

\* The value of a run of decimal digits.
RECURSIVE DigitsValue(_)
DigitsValue(ds) ==
    IF ds = <<>> THEN 0
    ELSE 10 * DigitsValue(SubSeq(ds, 1, Len(ds) - 1)) + DigitValue(ds[Len(ds)])

Negated(neg, n) == IF neg THEN 0 - n ELSE n

\* int(number_str), number_str a match of the number pattern without . and e.
IntOf(number_str) ==
    PyInt(Negated(AfterSign(number_str) = 2,
                  DigitsValue(SubSeq(number_str, AfterSign(number_str), Len(number_str)))))

\* mant * 10^exp with the trailing zeros of mant moved into exp.
RECURSIVE Normalize(_, _, _)
Normalize(neg, mant, exp) ==
    IF mant = 0 THEN PyFloat(neg, 0, 0)
    ELSE IF mant % 10 = 0 THEN Normalize(neg, mant \div 10, exp + 1)
    ELSE PyFloat(neg, mant, exp)

\* float(number_str), number_str a match of the number pattern whose sign,
\* integer part and fraction end before i0, i1 and i2.
FloatParts(number_str, i0, i1, i2) ==
    Normalize(i0 = 2,
              DigitsValue(SubSeq(number_str, i0, i1 - 1)
                          \o SubSeq(number_str, i1 + 1, i2 - 1)),
              (IF i2 <= Len(number_str)
               THEN Negated(number_str[i2 + 1] = Ord["-"],
                            DigitsValue(SubSeq(number_str, ExpDigitsAt(number_str, i2),
                                               Len(number_str))))
               ELSE 0)
              - Len(SubSeq(number_str, i1 + 1, i2 - 1)))

FloatOf(number_str) ==
    FloatParts(number_str, AfterSign(number_str), IntEnd(number_str), FracEnd(number_str))

\* A test that takes every literal for a float.
IsFloatLiteralAlways(number_str) == Len(number_str) > 0

\* "." in number_str or "e" in number_str.lower()
IsFloatLiteral(number_str) ==
    \E i \in 1..Len(number_str) : number_str[i] \in {Ord["."], Ord["e"], Ord["E"]}

\* Tokenizer._read_number from line 162 on.
NumberToken(tk, number_str_potential) ==
    IF ~MatchNumber(number_str_potential)
    THEN Raise(InvalidNumberException(number_str_potential, tk.line, tk.column), tk)
    ELSE Yield(Token("NUMBER",
                     IF IsFloatLiteral(number_str_potential)
                     THEN FloatOf(number_str_potential)
                     ELSE IntOf(number_str_potential),
                     tk.line, tk.column),
               TkAdvance(tk, Len(number_str_potential)))

\* Tokenizer._read_number
ReadNumber(tk) == NumberToken(tk, Slice(tk.json_string, tk.pos, RunEnd(tk, tk.pos)))

\* json_string.startswith(keyword, pos)
StartsWith(tk, keyword, pos) ==
    /\ pos + Len(keyword) <= tk.length
    /\ Slice(tk.json_string, pos, pos + Len(keyword)) = keyword

\* The token of a single character (lines 200-217).
PunctuationType(c) ==
    CASE c = Ord["{"] -> "LEFT_BRACE"
      [] c = Ord["}"] -> "RIGHT_BRACE"
      [] c = Ord["["] -> "LEFT_BRACKET"
      [] c = Ord["]"] -> "RIGHT_BRACKET"
      [] c = Ord[":"] -> "COLON"
      [] c = Ord[","] -> "COMMA"

IsPunctuation(c) ==
    c \in {Ord["{"], Ord["}"], Ord["["], Ord["]"], Ord[":"], Ord[","]}

\* One pass of the body of the while loop of tokenize (lines 196-234), from
\* after the skip of whitespace to its yield or raise; tk.pos < tk.length.
TokenAt(tk, char) ==
    IF IsPunctuation(char)
    THEN Yield(Token(PunctuationType(char), PyNone, tk.line, tk.column), TkAdvance(tk, 1))
    ELSE IF char = QUOTE THEN ReadString(tk)
    ELSE IF char = Ord["-"] \/ IsDigit(char) THEN ReadNumber(tk)
    ELSE IF StartsWith(tk, Str(<<"t", "r", "u", "e">>), tk.pos)
    THEN Yield(Token("TRUE", PyBool(TRUE), tk.line, tk.column), TkAdvance(tk, 4))
    ELSE IF StartsWith(tk, Str(<<"f", "a", "l", "s", "e">>), tk.pos)
    THEN Yield(Token("FALSE", PyBool(FALSE), tk.line, tk.column), TkAdvance(tk, 5))
    ELSE IF StartsWith(tk, Str(<<"n", "u", "l", "l">>), tk.pos)
    THEN Yield(Token("NULL", PyNone, tk.line, tk.column), TkAdvance(tk, 4))
    ELSE Raise(MalformedJsonException(
                 Message("Unexpected character: '{}'", <<>>, <<char>>),
                 tk.line, tk.column), tk)

\* A generator that raises is closed.
Closed(r) == IF r.tag = "raise" THEN [r EXCEPT !.tk.gen = "closed"] ELSE r

\* tokenize() from after the skip of whitespace (lines 193-236).
TokenizeFrom(tk) ==
    IF tk.pos >= tk.length
    THEN Yield(Token("EOF", PyNone, tk.line, tk.column), [tk EXCEPT !.gen = "eof"])
    ELSE Closed(TokenAt(tk, CharAt(tk, tk.pos)))

\* The generator tokenize() resumed once by next(): it runs to its next yield,
\* raises (and is closed), or returns (StopIteration).
Resumed(r) ==
    [r EXCEPT !.tk.resumed = @ + 1,
              !.tk.yielded = IF r.tag = "yield" THEN @ + 1 ELSE @]

Tokenize(tk) ==
    Resumed(IF tk.gen = "closed" THEN Stop(tk)
            ELSE IF tk.gen = "eof" THEN Stop([tk EXCEPT !.gen = "closed"])
            ELSE TokenizeFrom(IF tk.pos < tk.length THEN SkipWhitespace(tk) ELSE tk))

(***************************************************************************)
(* models.py                                                               *)
(***************************************************************************)

JsonString(value) == [cls |-> "JsonString", value |-> value]
JsonNumber(value) == [cls |-> "JsonNumber", value |-> value]
JsonBoolean(value) == [cls |-> "JsonBoolean", value |-> value]
JSON_NULL == [cls |-> "JsonNull", value |-> PyNone]
JsonArray(values) == [cls |-> "JsonArray", value |-> values]
\* properties: the dict of the object, a sequence of <<key, JsonValue>> items.
JsonObject(properties) == [cls |-> "JsonObject", value |-> properties]


\* JsonValue.to_native of each class.
RECURSIVE ToNative(_)
ToNative(jv) ==
    IF jv.cls = "JsonArray"
    THEN PyList([k \in 1..Len(jv.value) |-> ToNative(jv.value[k])])
    ELSE IF jv.cls = "JsonObject"
    THEN PyDict([k \in 1..Len(jv.value) |->
                    <<jv.value[k][1], ToNative(jv.value[k][2])>>])
    ELSE jv.value

\* A bool, int or float as the float it is equal to: True is 1, False is 0.
IsNumeric(x) == x.py \in {"bool", "int", "float"}
AsFloat(x) ==
    IF x.py = "bool" THEN Normalize(FALSE, IF x.v THEN 1 ELSE 0, 0)
    ELSE IF x.py = "int" THEN Normalize(x.v < 0, IF x.v < 0 THEN 0 - x.v ELSE x.v, 0)
    ELSE x

\* == of two floats: the two zeros are equal.
FloatEq(a, b) ==
    /\ a.mant = b.mant
    /\ a.mant # 0 => (a.neg = b.neg /\ a.exp = b.exp)

\* x == y of two native values: numbers (bool among them) by their value,
\* str by their characters, lists item by item, dicts by their keys whatever
\* the order; values of other pairs of types are not equal.
RECURSIVE PyEq(_, _)
PyEq(x, y) ==
    IF IsNumeric(x) /\ IsNumeric(y) THEN FloatEq(AsFloat(x), AsFloat(y))
    ELSE IF x.py # y.py THEN FALSE
    ELSE IF x.py = "list"
    THEN /\ Len(x.v) = Len(y.v)
         /\ \A k \in 1..Len(x.v) : PyEq(x.v[k], y.v[k])
    ELSE IF x.py = "dict"
    THEN /\ Len(x.v) = Len(y.v)
         /\ \A k \in 1..Len(x.v) :
               \E m \in 1..Len(y.v) :
                  /\ x.v[k][1] = y.v[m][1]
                  /\ PyEq(x.v[k][2], y.v[m][2])
    ELSE x = y

\* JsonValue.__eq__ (lines 13-16), other a JsonValue.
JsonEq(a, b) == PyEq(ToNative(a), ToNative(b))

\* What a comparison of the trees of the calls i and j gave; none yet.
Comparison(i, j, result) == [left |-> i, right |-> j, result |-> result]
NoComparison == [left |-> 0, right |-> 0, result |-> FALSE]

\* key in properties
DictHas(properties, key) == \E k \in 1..Len(properties) : properties[k][1] = key

\* A mapping that puts a new key first.
DictSetFirst(properties, key, value) ==
    IF DictHas(properties, key)
    THEN [k \in 1..Len(properties) |->
            IF properties[k][1] = key THEN <<key, value>> ELSE properties[k]]
    ELSE <<<<key, value>>>> \o properties

\* properties[key] = value: a new key goes last, a known key keeps its place.
DictSet(properties, key, value) ==
    IF DictHas(properties, key)
    THEN [k \in 1..Len(properties) |->
            IF properties[k][1] = key THEN <<key, value>> ELSE properties[k]]
    ELSE Append(properties, <<key, value>>)

(***************************************************************************)
(* parser_ref.py                                                           *)
(***************************************************************************)

\* An _advance that lets the end of the generator through as an error.
EofAfterStopRaising(r) ==
    IF r.tag = "stop"
    THEN Raise(UnexpectedEndOfInputException("token", r.tk.line, r.tk.column), r.tk)
    ELSE r

\* Parser._advance lines 33-39: an EOF token at the tokenizer's cursor once
\* the generator has returned.
EofAfterStop(r) ==
    IF r.tag = "stop"
    THEN Yield(Token("EOF", PyNone, r.tk.line, r.tk.column), r.tk)
    ELSE r

\* An _advance that drops the token it gets and takes the one after it.
SkipOne(r) ==
    IF r.tag = "raise" \/ r.token.type = "EOF" THEN r ELSE EofAfterStop(Tokenize(r.tk))
ParserAdvanceSkipping(tk) == SkipOne(EofAfterStop(Tokenize(tk)))

\* Parser._advance
ParserAdvance(tk) == EofAfterStop(Tokenize(tk))

\* An _eat that leaves the current token in place.
EatStuck(cur, tk, expected_type) == Yield(cur, tk)

\* An _eat that consumes whatever the current token is.
EatAny(cur, tk, expected_type) == ParserAdvance(tk)

\* Parser._eat
Eat(cur, tk, expected_type) ==
    IF cur.type = expected_type
    THEN ParserAdvance(tk)
    ELSE Raise(UnexpectedTokenException(expected_type, cur.type, cur.line, cur.column), tk)

\* The frames of _parse_object and _parse_array on the call stack.
ObjectFrame(properties, key) ==
    [fn |-> "_parse_object", properties |-> properties, elements |-> <<>>, key |-> key]
ArrayFrame(elements) ==
    [fn |-> "_parse_array", properties |-> <<>>, elements |-> elements, key |-> PyNone]

\* The value _parse_string, _parse_number, _parse_boolean or _parse_null
\* builds from the current token.
LiteralValue(cur) ==
    CASE cur.type = "STRING" -> JsonString(cur.value)
      [] cur.type = "NUMBER" -> JsonNumber(cur.value)
      [] cur.type = "TRUE" -> JsonBoolean(PyBool(TRUE))
      [] cur.type = "FALSE" -> JsonBoolean(PyBool(FALSE))
      [] cur.type = "NULL" -> JSON_NULL

IsLiteral(type) == type \in {"STRING", "NUMBER", "TRUE", "FALSE", "NULL"}

Returned(value) == [status |-> "returned", value |-> value, error |-> NoError]
Raised(error) == [status |-> "raised", value |-> PyNone, error |-> error]
Running == [status |-> "running", value |-> PyNone, error |-> NoError]

NoTokenizer == [gen |-> "None"]

Top(stk) == stk[Len(stk)]
Pop(stk) == SubSeq(stk, 1, Len(stk) - 1)
SetTop(stk, frame) == [stk EXCEPT ![Len(stk)] = frame]

(***************************************************************************)
(* The state: one call of loads(json_string) per instance                  *)
(***************************************************************************)

(***************************************************************************)
(* parser.py: the parser that returns native values.  Its tokenizer, with  *)
(* get_next_token, is taken to give the tokens of tokenizer.py, true and   *)
(* false as BOOLEAN.                                                       *)
(***************************************************************************)

\* The longest text Parser.parse of parser.py is run on.
MaxEagerLen == 64

JsonParseException(message, line, column) ==
    [kind |-> "JsonParseException", message |-> message, line |-> line, column |-> column]

\* Tokenizer.get_next_token: the next token, and the EOF token at the end.
EagerToken(r) ==
    IF r.tag = "yield" /\ r.token.type \in {"TRUE", "FALSE"}
    THEN [r EXCEPT !.token.type = "BOOLEAN"]
    ELSE r
GetNextToken(tk) == EagerToken(ParserAdvance(tk))

\* What a call of the parser ended in: a value with the tokenizer and the
\* current token after it, or an error.
EagerRaise(error) == [tag |-> "raise", value |-> PyNone, error |-> error, r |-> NoToken]
EagerValue(value, r) ==
    IF r.tag = "raise" THEN EagerRaise(r.error)
    ELSE [tag |-> "value", value |-> value, error |-> NoError, r |-> r]

EagerUnexpected(fmt, expected, cur) ==
    EagerRaise(JsonParseException(Message(fmt, expected \o <<cur.type>>, <<>>),
                                  cur.line, cur.column))

RECURSIVE EagerParseValue(_), EagerMembers(_, _), EagerElements(_, _)

\* Parser._expect lines 86-90 followed by what comes after it.
EagerExpect(r, token_type) ==
    IF r.tag = "raise" THEN r
    ELSE IF r.token.type = token_type THEN GetNextToken(r.tk)
    ELSE Raise(JsonParseException(
                 Message("Expected {}, got {}", <<token_type, r.token.type>>, <<>>),
                 r.token.line, r.token.column), r.tk)

\* Parser._parse_object lines 48-59: obj[key] = value, and what follows the
\* member; v is what _parse_value ended in.
EagerMember(obj, key, v) ==
    IF v.tag = "raise" THEN v
    ELSE IF v.r.token.type = "COMMA"
    THEN EagerMembers(GetNextToken(v.r.tk), DictSet(obj, key, v.value))
    ELSE IF v.r.token.type = "RIGHT_BRACE"
    THEN EagerValue(PyDict(DictSet(obj, key, v.value)), GetNextToken(v.r.tk))
    ELSE EagerUnexpected("Expected ',' or '}', got {}", <<>>, v.r.token)

\* Parser._parse_object lines 40-47, one turn of its loop: r is the token
\* in the place of the key.
EagerMembers(r, obj) ==
    IF r.tag = "raise" THEN EagerRaise(r.error)
    ELSE IF r.token.type # "STRING"
    THEN EagerUnexpected("Expected string key, got {}", <<>>, r.token)
    ELSE EagerMember(obj, r.token.value,
                     EagerParseValue(EagerExpect(GetNextToken(r.tk), "COLON")))

\* Parser._parse_array lines 68-81, one turn of its loop; v is what
\* _parse_value ended in.
EagerElement(arr, v) ==
    IF v.tag = "raise" THEN v
    ELSE IF v.r.token.type = "COMMA"
    THEN EagerElements(GetNextToken(v.r.tk), Append(arr, v.value))
    ELSE IF v.r.token.type = "RIGHT_BRACKET"
    THEN EagerValue(PyList(Append(arr, v.value)), GetNextToken(v.r.tk))
    ELSE EagerUnexpected("Expected ',' or ']', got {}", <<>>, v.r.token)

EagerElements(r, arr) == EagerElement(arr, EagerParseValue(r))

\* Parser._parse_object lines 33-38 and Parser._parse_array lines 62-66: r is
\* the token after the opener.
EagerContainer(r, closer) ==
    IF r.tag = "raise" THEN EagerRaise(r.error)
    ELSE IF r.token.type = closer
    THEN EagerValue(IF closer = "RIGHT_BRACE" THEN PyDict(<<>>) ELSE PyList(<<>>),
                    GetNextToken(r.tk))
    ELSE IF closer = "RIGHT_BRACE" THEN EagerMembers(r, <<>>)
    ELSE EagerElements(r, <<>>)

\* Parser._parse_value lines 19-30; r is the current token.
EagerParseValue(r) ==
    IF r.tag = "raise" THEN EagerRaise(r.error)
    ELSE IF r.token.type = "LEFT_BRACE"
    THEN EagerContainer(GetNextToken(r.tk), "RIGHT_BRACE")
    ELSE IF r.token.type = "LEFT_BRACKET"
    THEN EagerContainer(GetNextToken(r.tk), "RIGHT_BRACKET")
    ELSE IF r.token.type \in {"STRING", "NUMBER", "BOOLEAN", "NULL"}
    THEN EagerValue(r.token.value, GetNextToken(r.tk))
    ELSE EagerUnexpected("Unexpected token: {}", <<>>, r.token)

\* Parser.parse lines 12-17; v is what _parse_value ended in.
EagerEnd(v) ==
    IF v.tag = "raise" THEN v
    ELSE IF v.r.token.type # "EOF"
    THEN EagerRaise(JsonParseException(Message("Extra data after JSON object", <<>>, <<>>),
                                       v.r.token.line, v.r.token.column))
    ELSE v

\* Parser.__init__ lines 8-10 and Parser.parse.
EagerParser(data) == EagerEnd(EagerParseValue(GetNextToken(TokenizerInit(data))))

EagerOutcome(v) == IF v.tag = "raise" THEN Raised(v.error) ELSE Returned(v.value)

VARIABLES
    json_string,    \* the argument of loads
    oracle,         \* what the construction of the input says of it (ghost)
    tokenizer,      \* Parser.tokenizer, the Tokenizer and its generator
    current_token,  \* Parser.current_token
    stack,          \* the frames of _parse_object and _parse_array, innermost last
    ret,            \* the JsonValue the last finished call returned
    pc,             \* where the call of loads is
    outcome,        \* what loads returned or raised
    eq,             \* what == of two trees that parse returned evaluated to
    eager           \* what Parser(text).parse() of parser.py returned or raised

vars ==
    <<json_string, oracle, tokenizer, current_token, stack, ret, pc, outcome, eq, eager>>

Instances == DOMAIN json_string

\* The call goes on at npc with the tokenizer, token, stack and value given.
Continue(i, tk, cur, stk, rv, npc) ==
    /\ tokenizer' = [tokenizer EXCEPT ![i] = tk]
    /\ current_token' = [current_token EXCEPT ![i] = cur]
    /\ stack' = [stack EXCEPT ![i] = stk]
    /\ ret' = [ret EXCEPT ![i] = rv]
    /\ pc' = [pc EXCEPT ![i] = npc]
    /\ UNCHANGED <<json_string, oracle, outcome, eq, eager>>

\* An exception leaves every frame and loads.
Throw(i, tk, error) ==
    /\ tokenizer' = [tokenizer EXCEPT ![i] = tk]
    /\ stack' = [stack EXCEPT ![i] = <<>>]
    /\ pc' = [pc EXCEPT ![i] = "done"]
    /\ outcome' = [outcome EXCEPT ![i] = Raised(error)]
    /\ UNCHANGED <<json_string, oracle, current_token, ret, eq, eager>>

\* A call that turns the error of _advance or _eat into the base error.
AdvanceToDowngrading(i, r, stk, rv, npc) ==
    IF r.tag = "raise"
    THEN Throw(i, r.tk, MalformedJsonException(r.error.message, r.error.line, r.error.column))
    ELSE Continue(i, r.tk, r.token, stk, rv, npc)

\* The call goes on after _advance or _eat ended in r, unless r is a raise.
AdvanceTo(i, r, stk, rv, npc) ==
    IF r.tag = "raise" THEN Throw(i, r.tk, r.error)
    ELSE Continue(i, r.tk, r.token, stk, rv, npc)

\* A Parser that takes up the Tokenizer another Parser has made.
ConstructShared(i) ==
    /\ pc[i] = "init"
    /\ AdvanceTo(i, ParserAdvance(IF \E j \in Instances : tokenizer[j] # NoTokenizer
                                  THEN tokenizer[CHOOSE j \in Instances :
                                                   tokenizer[j] # NoTokenizer]
                                  ELSE TokenizerInit(json_string[i])),
                 <<>>, NoValue, "value")

\* loads line 234, Parser.__init__: the tokenizer is made and the first token read.
Construct(i) ==
    /\ pc[i] = "init"
    /\ AdvanceTo(i, ParserAdvance(TokenizerInit(json_string[i])), <<>>, NoValue, "value")

\* Parser._parse_value on the token cur, up to the call of _parse_object or
\* _parse_array or the return of a literal; r is what _eat(cur.type) ends in.
ParseValueOn(i, cur, r) ==
    IF cur.type = "LEFT_BRACE"
    THEN AdvanceTo(i, r, Append(stack[i], ObjectFrame(<<>>, PyNone)), ret[i], "object")
    ELSE IF cur.type = "LEFT_BRACKET"
    THEN AdvanceTo(i, r, Append(stack[i], ArrayFrame(<<>>)), ret[i], "array")
    ELSE IF IsLiteral(cur.type)
    THEN AdvanceTo(i, r, stack[i], LiteralValue(cur), "after_value")
    ELSE IF cur.type = "EOF"
    THEN Throw(i, tokenizer[i],
               UnexpectedEndOfInputException("JSON value", cur.line, cur.column))
    ELSE Throw(i, tokenizer[i],
               UnexpectedTokenException(
                 "JSON value (object, array, string, number, true, false, or null)",
                 cur.type, cur.line, cur.column))

\* The limit of the interpreter on the depth of the call stack
\* (sys.getrecursionlimit() of CPython), and the frames that are not counted
\* here: those of the caller of loads and of the calls below _parse_value.
RecursionLimit == 1000
Headroom == 48

\* What the interpreter raises for a call beyond its limit; it is no
\* MalformedJsonException and has no line and no column.
RecursionError == [kind |-> "RecursionError"]

\* The frames on the call stack when _parse_value calls _parse_object,
\* _parse_array or the function of a literal: those of loads and parse, of
\* _parse_value and the function of each open container, and these two.
Frames(stk) == 2 + 2 * Len(stk) + 2

\* Whether the calls of _parse_value overflow the call stack: they do when
\* the frames counted exceed the limit, they may when the frames counted
\* and those not counted do, and else they do not.
Overflows(stk) ==
    { b \in BOOLEAN : IF b THEN Frames(stk) + Headroom > RecursionLimit
                               ELSE Frames(stk) <= RecursionLimit }

\* Parser._parse_value, called by parse (line 60), _parse_object (line 128)
\* or _parse_array (line 167).
ParseValue(i) ==
    /\ pc[i] = "value"
    /\ \E overflow \in Overflows(stack[i]) :
          IF overflow
          THEN Throw(i, tokenizer[i], RecursionError)
          ELSE ParseValueOn(i, current_token[i],
                            Eat(current_token[i], tokenizer[i], current_token[i].type))

\* Parser._parse_object lines 119-125: the key token cur has been eaten by
\* _parse_string, which ended in r, and the key is looked up.
ObjectKeyCheck(i, cur, frame, key, r) ==
    IF r.tag = "raise" THEN Throw(i, r.tk, r.error)
    ELSE IF DictHas(frame.properties, key)
    THEN Throw(i, r.tk, DuplicateKeyException(key.v, cur.line, cur.column))
    ELSE Continue(i, r.tk, r.token, SetTop(stack[i], ObjectFrame(frame.properties, key)),
                  ret[i], "colon")

\* An object that takes the token in the place of a key as the key, whatever
\* its type.
ObjectKeyOnAnyType(i, cur, frame, r) ==
    IF cur.type = "RIGHT_BRACE"
    THEN AdvanceTo(i, r, Pop(stack[i]), JsonObject(frame.properties), "after_value")
    ELSE IF cur.type = "EOF"
    THEN Throw(i, tokenizer[i], UnexpectedEndOfInputException("}", cur.line, cur.column))
    ELSE ObjectKeyCheck(i, cur, frame, ToNative(JsonString(cur.value)), r)

\* Parser._parse_object at the test of its while loop (line 105): the object
\* ends (lines 153-154), or a key is read and checked (lines 106-125); r is
\* what _eat(cur.type) ends in.
ObjectKeyOn(i, cur, frame, r) ==
    IF cur.type = "RIGHT_BRACE"
    THEN AdvanceTo(i, r, Pop(stack[i]), JsonObject(frame.properties), "after_value")
    ELSE IF cur.type = "EOF"
    THEN Throw(i, tokenizer[i], UnexpectedEndOfInputException("}", cur.line, cur.column))
    ELSE IF cur.type # "STRING"
    THEN Throw(i, tokenizer[i],
               UnexpectedTokenException("String (object key)", cur.type,
                                        cur.line, cur.column))
    ELSE ObjectKeyCheck(i, cur, frame, ToNative(JsonString(cur.value)), r)

ObjectKey(i) ==
    /\ pc[i] = "object"
    /\ ObjectKeyOn(i, current_token[i], Top(stack[i]),
                   Eat(current_token[i], tokenizer[i], current_token[i].type))

\* Parser._parse_object line 127: the colon after the key.
ObjectColon(i) ==
    /\ pc[i] = "colon"
    /\ AdvanceTo(i, Eat(current_token[i], tokenizer[i], "COLON"), stack[i], ret[i], "value")

\* A parser that lets the closer follow a comma.
AfterCommaLenient(i, r, stk, closer, container, npc) ==
    IF r.tag = "raise" THEN Throw(i, r.tk, r.error)
    ELSE Continue(i, r.tk, r.token, stk, ret[i], npc)

\* A comma was eaten, which ended in r: the closer must not follow
\* (lines 133-141 and 171-177).
AfterComma(i, r, stk, closer, container, npc) ==
    IF r.tag = "raise" THEN Throw(i, r.tk, r.error)
    ELSE IF r.token.type = closer
    THEN Throw(i, r.tk, MalformedJsonException(
                          Message("Trailing comma not allowed in {}", <<container>>, <<>>),
                          r.token.line, r.token.column))
    ELSE Continue(i, r.tk, r.token, stk, ret[i], npc)

\* What follows a member or an element (lines 131-152 and 169-188): a comma
\* is eaten, else the closer must follow.
AfterMember(i, cur, stk, closer, closerText, container) ==
    IF cur.type = "COMMA"
    THEN AfterComma(i, Eat(cur, tokenizer[i], "COMMA"), stk, closer, container, container)
    ELSE IF cur.type = "EOF"
    THEN Throw(i, tokenizer[i],
               UnexpectedEndOfInputException(closerText, cur.line, cur.column))
    ELSE IF cur.type # closer
    THEN Throw(i, tokenizer[i],
               UnexpectedTokenException(closerText, cur.type, cur.line, cur.column))
    ELSE Continue(i, tokenizer[i], cur, stk, ret[i], container)

\* Parser._parse_object lines 128-152, from the return of _parse_value.
ObjectMember(i) ==
    /\ pc[i] = "after_value"
    /\ stack[i] # <<>>
    /\ Top(stack[i]).fn = "_parse_object"
    /\ AfterMember(i, current_token[i],
                   SetTop(stack[i],
                          ObjectFrame(DictSet(Top(stack[i]).properties,
                                              Top(stack[i]).key, ret[i]),
                                      Top(stack[i]).key)),
                   "RIGHT_BRACE", "',' or '}'", "object")

\* Parser._parse_array at the test of its while loop (line 162): the array
\* ends (lines 189-190), or _parse_value is called for an element.
ArrayElementOn(i, cur, frame) ==
    IF cur.type = "RIGHT_BRACKET"
    THEN AdvanceTo(i, Eat(cur, tokenizer[i], "RIGHT_BRACKET"), Pop(stack[i]),
                   JsonArray(frame.elements), "after_value")
    ELSE IF cur.type = "EOF"
    THEN Throw(i, tokenizer[i], UnexpectedEndOfInputException("]", cur.line, cur.column))
    ELSE Continue(i, tokenizer[i], cur, stack[i], ret[i], "value")

ArrayElement(i) ==
    /\ pc[i] = "array"
    /\ ArrayElementOn(i, current_token[i], Top(stack[i]))

\* An array that takes each new element in front of the others.
ArrayMemberFirst(i) ==
    /\ pc[i] = "after_value"
    /\ stack[i] # <<>>
    /\ Top(stack[i]).fn = "_parse_array"
    /\ AfterMember(i, current_token[i],
                   SetTop(stack[i], ArrayFrame(<<ret[i]>> \o Top(stack[i]).elements)),
                   "RIGHT_BRACKET", "',' or ']'", "array")

\* Parser._parse_array lines 167-188, from the return of _parse_value.
ArrayMember(i) ==
    /\ pc[i] = "after_value"
    /\ stack[i] # <<>>
    /\ Top(stack[i]).fn = "_parse_array"
    /\ AfterMember(i, current_token[i],
                   SetTop(stack[i], ArrayFrame(Append(Top(stack[i]).elements, ret[i]))),
                   "RIGHT_BRACKET", "',' or ']'", "array")

\* A parse that does not look at what follows the value.
ParseEndAnyToken(i, cur) ==
    Continue(i, tokenizer[i], cur, stack[i], ret[i], "parsed")

\* Parser.parse lines 61-67, from the return of the outermost _parse_value.
ParseEndOn(i, cur) ==
    IF cur.type # "EOF"
    THEN Throw(i, tokenizer[i],
               MalformedJsonException(
                 Message("Extra data after JSON document", <<>>, <<>>),
                 cur.line, cur.column))
    ELSE Continue(i, tokenizer[i], cur, stack[i], ret[i], "parsed")

ParseEnd(i) ==
    /\ pc[i] = "after_value"
    /\ stack[i] = <<>>
    /\ ParseEndOn(i, current_token[i])

\* A loads that returns the native value of the tree parsed by the call of
\* the highest number, as if the tree were kept in one place for all calls.
LoadsReturnShared(i) ==
    /\ pc[i] = "parsed"
    /\ pc' = [pc EXCEPT ![i] = "done"]
    /\ outcome' = [outcome EXCEPT ![i] =
                     Returned(ToNative(ret[CHOOSE j \in Instances :
                                             /\ pc[j] = "parsed"
                                             /\ \A k \in Instances :
                                                   pc[k] = "parsed" => k <= j]))]
    /\ UNCHANGED <<json_string, oracle, tokenizer, current_token, stack, ret, eq, eager>>

\* loads line 236: the native value of the tree is returned.
LoadsReturn(i) ==
    /\ pc[i] = "parsed"
    /\ pc' = [pc EXCEPT ![i] = "done"]
    /\ outcome' = [outcome EXCEPT ![i] = Returned(ToNative(ret[i]))]
    /\ UNCHANGED <<json_string, oracle, tokenizer, current_token, stack, ret, eq, eager>>

\* JsonValue.__eq__ called on the trees that two calls of Parser.parse (or
\* one) have returned, before to_native is called on them.
Compare(i, j) ==
    /\ pc[i] = "parsed"
    /\ pc[j] = "parsed"
    /\ eq = NoComparison
    /\ eq' = Comparison(i, j, JsonEq(ret[i], ret[j]))
    /\ UNCHANGED <<json_string, oracle, tokenizer, current_token, stack, ret, pc, outcome,
                   eager>>

\* Parser(text).parse() of parser.py on the text of call i, once loads has
\* ended on it.
EagerParse(i) ==
    /\ pc[i] = "done"
    /\ eager[i] = Running
    /\ Len(json_string[i]) <= MaxEagerLen
    /\ eager' = [eager EXCEPT ![i] = EagerOutcome(EagerParser(json_string[i]))]
    /\ UNCHANGED <<json_string, oracle, tokenizer, current_token, stack, ret, pc, outcome, eq>>

Next ==
    \/ \E i \in Instances : Construct(i)
    \/ \E i \in Instances : ParseValue(i)
    \/ \E i \in Instances : ObjectKey(i)
    \/ \E i \in Instances : ObjectColon(i)
    \/ \E i \in Instances : ObjectMember(i)
    \/ \E i \in Instances : ArrayElement(i)
    \/ \E i \in Instances : ArrayMember(i)
    \/ \E i \in Instances : ParseEnd(i)
    \/ \E i \in Instances : LoadsReturn(i)
    \/ \E i \in Instances, j \in Instances : Compare(i, j)
    \/ \E i \in Instances : EagerParse(i)

\* The state before loads(text) is called once.
Start(text, orc) ==
    /\ json_string = <<text>>
    /\ oracle = orc
    /\ tokenizer = <<NoTokenizer>>
    /\ current_token = <<NoToken>>
    /\ stack = << <<>> >>
    /\ ret = <<NoValue>>
    /\ pc = <<"init">>
    /\ outcome = <<Running>>
    /\ eq = NoComparison
    /\ eager = <<Running>>

(***************************************************************************)
(* Inputs.  Each input is built from parts, and the way it is built says   *)
(* what it denotes and where its first flaw is (the oracle): nothing of    *)
(* that is taken from the lexer or the parser.                             *)
(***************************************************************************)

MaxMembers == 2
MaxDepth == 1
MaxNumLen == 4
MaxItems == 2
MaxCutLen == 24

Cat3(a, b, c) == a \o b \o c

SeqsUpTo(S, n) == UNION {[1..k -> S] : k \in 0..n}

\* The 1-based line and column of the character at 0-based offset at of text.
LineOf(text, at) == 1 + Cardinality({k \in 1..at : text[k] = LF})
ColumnOf(text, at) ==
    LET lfs == {k \in 1..at : text[k] = LF}
        last == IF lfs = {} THEN 0 ELSE CHOOSE k \in lfs : \A m \in lfs : m <= k
    IN  at + 1 - last

\* The first flaw of a document in reading order: a repeated key ("dup", at the
\* repeated key), a comma before the closer after a member ("tc", at the
\* closer), a comma alone in a container ("comma").
NoFlaw == [kind |-> "none", at |-> 0, key |-> <<>>, container |-> "none"]
Flaw(kind, at, key, container) ==
    [kind |-> kind, at |-> at, key |-> key, container |-> container]
Shift(flaw, by) == IF flaw.kind = "none" THEN flaw ELSE [flaw EXCEPT !.at = @ + by]

\* A document: its text, the native value it denotes when it has no flaw, its
\* first flaw, whether an object in it repeats a key, whether a comma in it is
\* followed by a closer, and whether it is a bare number.
Doc(text, value, flaw, hasDup, commaCloser, isNumber) ==
    [text |-> text, value |-> value, flaw |-> flaw, hasDup |-> hasDup,
     commaCloser |-> commaCloser, isNumber |-> isNumber]

Scalars ==
    { Doc(Str(<<"1">>), PyInt(1), NoFlaw, FALSE, FALSE, TRUE),
      Doc(Str(<<"-", "2", ".", "5", "0", "e", "1">>), PyFloat(TRUE, 25, 0),
          NoFlaw, FALSE, FALSE, TRUE),
      Doc(Str(<<"\"", "a", "\\", "n", "\"">>), PyStr(<<97, 10>>),
          NoFlaw, FALSE, FALSE, FALSE),
      Doc(Str(<<"t", "r", "u", "e">>), PyBool(TRUE), NoFlaw, FALSE, FALSE, FALSE),
      Doc(Str(<<"n", "u", "l", "l">>), PyNone, NoFlaw, FALSE, FALSE, FALSE) }

One == Doc(Str(<<"1">>), PyInt(1), NoFlaw, FALSE, FALSE, TRUE)

\* Key literals: the text and the key it denotes; two of them denote "a".
KeyLit(text, key) == [text |-> text, key |-> key]
KeyA == KeyLit(Str(<<"\"", "a", "\"">>), <<97>>)
KeyB == KeyLit(Str(<<"\"", "b", "\"">>), <<98>>)
KeyA2 == KeyLit(Str(<<"\"", "\\", "u", "0", "0", "6", "1", "\"">>), <<97>>)
KeyLits == {KeyA, KeyB, KeyA2}

\* The whitespace put around every token of a document.
Styles == { <<>>, <<32>>, <<10, 9>> }

\* The elements es[k..] of an array after the text acc, w around the tokens.
RECURSIVE ArrItems(_, _, _, _)
ArrItems(es, w, k, acc) ==
    IF k > Len(es) THEN acc
    ELSE
      LET sep == IF k > 1 THEN <<Ord[","]>> \o w ELSE <<>>
          at == Len(acc.text) + Len(sep)
          e == es[k]
      IN  ArrItems(es, w, k + 1,
            [text |-> acc.text \o sep \o e.text \o w,
             items |-> Append(acc.items, e.value),
             keys |-> {},
             flaw |-> IF acc.flaw.kind = "none" THEN Shift(e.flaw, at) ELSE acc.flaw,
             hasDup |-> acc.hasDup \/ e.hasDup,
             commaCloser |-> acc.commaCloser \/ e.commaCloser])

\* The members ms[k..] = <<key literal, document>> of an object after acc.
RECURSIVE ObjItems(_, _, _, _)
ObjItems(ms, w, k, acc) ==
    IF k > Len(ms) THEN acc
    ELSE
      LET sep == IF k > 1 THEN <<Ord[","]>> \o w ELSE <<>>
          keyAt == Len(acc.text) + Len(sep)
          lit == ms[k][1]
          e == ms[k][2]
          upto == acc.text \o sep \o lit.text \o w \o <<Ord[":"]>> \o w
          repeated == lit.key \in acc.keys
      IN  ObjItems(ms, w, k + 1,
            [text |-> upto \o e.text \o w,
             items |-> Append(acc.items, <<PyStr(lit.key), e.value>>),
             keys |-> acc.keys \cup {lit.key},
             flaw |-> IF acc.flaw.kind # "none" THEN acc.flaw
                      ELSE IF repeated THEN Flaw("dup", keyAt, lit.key, "object")
                      ELSE Shift(e.flaw, Len(upto)),
             hasDup |-> acc.hasDup \/ repeated \/ e.hasDup,
             commaCloser |-> acc.commaCloser \/ e.commaCloser])

\* A container from its opener, items and closer; tc puts a comma before the closer.
Container(open, close, name, body, w, tc, value) ==
    LET comma == IF tc THEN <<Ord[","]>> \o w ELSE <<>>
        closeAt == Len(body.text) + Len(comma)
    IN  Doc(body.text \o comma \o <<Ord[close]>>,
            value,
            IF body.flaw.kind # "none" THEN body.flaw
            ELSE IF ~tc THEN NoFlaw
            ELSE IF Len(body.items) = 0 THEN Flaw("comma", closeAt - Len(comma), <<>>, name)
            ELSE Flaw("tc", closeAt, <<>>, name),
            body.hasDup, body.commaCloser \/ tc, FALSE)

EmptyBody(open, w) ==
    [text |-> <<Ord[open]>> \o w, items |-> <<>>, keys |-> {}, flaw |-> NoFlaw,
     hasDup |-> FALSE, commaCloser |-> FALSE]

ArrDoc(es, w, tc) ==
    LET body == ArrItems(es, w, 1, EmptyBody("[", w)) IN
    Container("[", "]", "array", body, w, tc, PyList(body.items))

ObjDoc(ms, w, tc) ==
    LET body == ObjItems(ms, w, 1, EmptyBody("{", w)) IN
    Container("{", "}", "object", body, w, tc, PyDict(body.items))

\* The containers of up to n members over the documents E, keys K, style w.
Containers(E, K, n, w) ==
    {ArrDoc(es, w, tc) : es \in SeqsUpTo(E, n), tc \in BOOLEAN}
    \cup {ObjDoc(ms, w, tc) : ms \in SeqsUpTo(K \X E, n), tc \in BOOLEAN}

\* A document inside one more container, alone or beside a member 1.
Wrap(D, w) ==
    { ArrDoc(<<D>>, w, FALSE), ArrDoc(<<One, D>>, w, FALSE), ArrDoc(<<D, One>>, w, FALSE),
      ArrDoc(<<D>>, w, TRUE),
      ObjDoc(<< <<KeyA, D>> >>, w, FALSE),
      ObjDoc(<< <<KeyB, One>>, <<KeyA, D>> >>, w, FALSE),
      ObjDoc(<< <<KeyA, D>>, <<KeyB, One>> >>, w, FALSE),
      ObjDoc(<< <<KeyA, D>>, <<KeyA2, One>> >>, w, FALSE),
      ObjDoc(<< <<KeyA, One>>, <<KeyA, D>> >>, w, FALSE),
      ObjDoc(<< <<KeyA, D>> >>, w, TRUE) }

RECURSIVE Nested(_, _)
Nested(d, w) ==
    IF d = 0 THEN Containers({One}, KeyLits, 2, <<>>)
    ELSE Nested(d - 1, w) \cup UNION {Wrap(D, w) : D \in Nested(d - 1, w)}

\* The documents: scalars, containers of scalars, nested containers, each
\* with whitespace before and after.
Documents ==
    UNION { {Doc(Cat3(w, D.text, w), D.value, Shift(D.flaw, Len(w)), D.hasDup,
                 D.commaCloser, D.isNumber) :
               D \in Scalars \cup Containers(Scalars, KeyLits, MaxMembers, w)
                     \cup Nested(MaxDepth, w)} :
            w \in Styles }

DocOracle(D) ==
    [family |-> "doc", value |-> D.value, flaw |-> D.flaw, hasDup |-> D.hasDup,
     commaCloser |-> D.commaCloser]

\* Text after a document: tokens that are well formed, and text that begins
\* no well-formed token.
GoodTails ==
    { Str(<<"1">>), Str(<<"-", "0", ".", "5">>), Str(<<"\"", "a", "\"">>),
      Str(<<"t", "r", "u", "e">>), Str(<<"n", "u", "l", "l">>),
      Str(<<"[">>), Str(<<"]">>), Str(<<"{">>), Str(<<"}">>), Str(<<",">>),
      Str(<<":">>), Str(<<"[", "1", "]">>) }
BadTails ==
    { Str(<<"@">>), Str(<<"0", "1">>), Str(<<"\"", "a">>), Str(<<"t", "r", "u">>),
      Str(<<".", "5">>), Str(<<"e", "x", "t", "r", "a">>), Str(<<"\"", "\\", "z", "\"">>) }
Gaps == { <<>>, <<32>>, <<10>>, <<32, 10, 9>> }

NumberChars == (48..57) \cup {Ord["."], Ord["-"], Ord["+"], Ord["e"], Ord["E"]}

\* The document D, the whitespace gap and the text tail: the tail is a "token"
\* of its own, "bad" text, or text that goes on ("glue") the number D ends in.
ExtraOracle(D, gap, tail) ==
    [family |-> "extra", value |-> D.value,
     tail |-> IF D.isNumber /\ gap = <<>> /\ tail[1] \in NumberChars THEN "glue"
              ELSE IF tail \in GoodTails THEN "token"
              ELSE "bad",
     tailAt |-> Len(D.text) + Len(gap)]

\* The flawless documents that tails are put after.
TopDocuments ==
    {D \in Scalars \cup Containers({One}, KeyLits, 2, <<>>) \cup Containers({One}, {KeyA}, 1, <<32>>) :
        D.flaw.kind = "none" /\ ~D.hasDup /\ ~D.commaCloser}

\* What may stand where a document is cut off after a key: nothing, the rest
\* of a member, and text that begins no well-formed token.
CutTails ==
    { <<>>, Str(<<":", "1", "}">>), Str(<<":", "@">>), Str(<<"1">>),
      Str(<<"@">>), Str(<<" ", "@">>), Str(<<"0", "1">>), Str(<<"\"", "x">>) }

\* The last character of the string token that starts after text[1..at] and
\* holds no escaped quote.
KeyEnd(text, at) == CHOOSE k \in (at + 2)..Len(text) :
                      /\ text[k] = QUOTE
                      /\ \A j \in (at + 2)..(k - 1) : text[j] # QUOTE

\* The document D, whose first flaw is a repeated key, cut off after that key
\* and followed by tail.
CutText(D, tail) == SubSeq(D.text, 1, KeyEnd(D.text, D.flaw.at)) \o tail

CutOracle(D, tail) == [family |-> "cut", flaw |-> D.flaw, tail |-> tail]

InitDocuments ==
    \/ \E D \in Documents : Start(D.text, DocOracle(D))
    \/ \E D \in {D \in Documents : D.flaw.kind = "dup" /\ Len(D.text) <= MaxCutLen},
           tail \in CutTails :
          Start(CutText(D, tail), CutOracle(D, tail))
    \/ \E D \in TopDocuments, gap \in Gaps, tail \in GoodTails \cup BadTails :
          Start(Cat3(D.text, gap, tail), ExtraOracle(D, gap, tail))

SpecDocuments == InitDocuments /\ [][Next]_vars

(***************************************************************************)
(* Claims on documents, under SpecDocuments                                *)
(***************************************************************************)

Done == pc[1] = "done"
Text == json_string[1]
Outcome == outcome[1]

\* C1: for every input whose first flaw is a key token that repeats a key of
\* the object being read, loads raises DuplicateKey whose detail is that key
\* and whose line and column are those of the repeated key token, whatever
\* follows the key; no value is returned.
C1_DuplicateKey ==
    (Done /\ oracle.family \in {"doc", "cut"} /\ oracle.flaw.kind = "dup")
    => Outcome = Raised(DuplicateKeyException(oracle.flaw.key,
                                              LineOf(Text, oracle.flaw.at),
                                              ColumnOf(Text, oracle.flaw.at)))

\* C1 where the text is a document of the grammar but for the repeated key:
\* the token after the key is then a colon.
C1_DuplicateKeyInDocument ==
    (Done /\ oracle.family = "doc" /\ oracle.flaw.kind = "dup")
    => Outcome = Raised(DuplicateKeyException(oracle.flaw.key,
                                              LineOf(Text, oracle.flaw.at),
                                              ColumnOf(Text, oracle.flaw.at)))

\* A repeated key, written with an escape, on a later line, inside an array.
C1_Witness ==
    /\ Done /\ oracle.family = "doc" /\ oracle.flaw.kind = "dup"
    /\ Outcome.status = "raised"
    /\ Outcome.error.kind = "DuplicateKeyException"
    /\ Outcome.error.line >= 2
    /\ \E k \in 1..oracle.flaw.at : Text[k] = Ord["["]
    /\ Text[oracle.flaw.at + 2] = BACKSLASH

\* C27: when the key token held at the test of the loop of _parse_object
\* repeats a key of the object, the step raises DuplicateKey without the
\* tokenizer being asked for the token after the key, whatever follows it.
C27_CheckBeforePull ==
    [][(/\ pc[1] = "object"
        /\ current_token[1].type = "STRING"
        /\ DictHas(Top(stack[1]).properties, ToNative(JsonString(current_token[1].value))))
       => /\ tokenizer'[1].resumed = tokenizer[1].resumed
          /\ outcome'[1].status = "raised"
          /\ outcome'[1].error.kind = "DuplicateKeyException"]_vars

\* The text was cut off after a repeated key and goes on with '@': the
\* tokenizer was asked for the token after the key and its error came out.
C27_Witness ==
    /\ Done /\ oracle.family = "cut" /\ oracle.tail = Str(<<"@">>)
    /\ tokenizer[1].gen = "closed"
    /\ tokenizer[1].resumed = tokenizer[1].yielded + 1
    /\ Outcome.status = "raised"
    /\ Outcome.error.kind = "MalformedJsonException"
    /\ Outcome.error.message = Message("Unexpected character: '{}'", <<>>, <<Ord["@"]>>)

TrailingCommaMessage(container) ==
    Message("Trailing comma not allowed in {}", <<container>>, <<>>)

\* C2 as stated: every input in which a comma is followed, up to whitespace,
\* by the closer of a container fails with the trailing comma error.
C2_AnyCommaCloser ==
    (Done /\ oracle.family = "doc" /\ oracle.commaCloser)
    => /\ Outcome.status = "raised"
       /\ Outcome.error.kind = "MalformedJsonException"
       /\ Outcome.error.message.fmt = "Trailing comma not allowed in {}"

\* C2 amended: when the first flaw of the input is a comma that follows a
\* member or element and is followed, up to whitespace, by the closer of its
\* container, loads raises the trailing comma error of that kind of container
\* at the closer; and no input with a comma followed by a closer is accepted.
C2_TrailingComma ==
    (Done /\ oracle.family = "doc")
    => /\ oracle.flaw.kind = "tc"
          => Outcome = Raised(MalformedJsonException(
                                TrailingCommaMessage(oracle.flaw.container),
                                LineOf(Text, oracle.flaw.at),
                                ColumnOf(Text, oracle.flaw.at)))
       /\ oracle.commaCloser => Outcome.status = "raised"

\* A trailing comma in an object inside an array, the closer on a later line.
C2_Witness ==
    /\ Done /\ oracle.family = "doc" /\ oracle.flaw.kind = "tc"
    /\ oracle.flaw.container = "object"
    /\ \E k \in 1..oracle.flaw.at : Text[k] = Ord["["]
    /\ Outcome.status = "raised"
    /\ Outcome.error.message = TrailingCommaMessage("object")
    /\ Outcome.error.line >= 2

ExtraDataMessage == Message("Extra data after JSON document", <<>>, <<>>)

\* C3 as stated: a well-formed value followed by any text that is not
\* whitespace fails with the extra data error.
C3_AnyTail ==
    (Done /\ oracle.family = "extra")
    => /\ Outcome.status = "raised"
       /\ Outcome.error.message = ExtraDataMessage

\* C3 amended: a well-formed value followed, after optional whitespace, by a
\* well-formed token that does not go on a number the value ends in fails
\* with the extra data error at that token; text that begins no well-formed
\* token fails with another error.
C3_ExtraData ==
    (Done /\ oracle.family = "extra")
    => /\ oracle.tail = "token"
          => Outcome = Raised(MalformedJsonException(ExtraDataMessage,
                                                     LineOf(Text, oracle.tailAt),
                                                     ColumnOf(Text, oracle.tailAt)))
       /\ oracle.tail = "bad"
          => Outcome.status = "raised" /\ Outcome.error.message # ExtraDataMessage

\* An object followed on the next line by a string.
C3_Witness ==
    /\ Done /\ oracle.family = "extra" /\ oracle.tail = "token"
    /\ Text[1] = Ord["{"]
    /\ Text[oracle.tailAt + 1] = QUOTE
    /\ Outcome.status = "raised"
    /\ Outcome.error.message = ExtraDataMessage
    /\ Outcome.error.line = 2

RECURSIVE UniqueKeys(_)
UniqueKeys(jv) ==
    IF jv.cls = "JsonArray"
    THEN \A k \in 1..Len(jv.value) : UniqueKeys(jv.value[k])
    ELSE IF jv.cls = "JsonObject"
    THEN /\ \A k, m \in 1..Len(jv.value) : jv.value[k][1] = jv.value[m][1] => k = m
         /\ \A k \in 1..Len(jv.value) : UniqueKeys(jv.value[k][2])
    ELSE TRUE

\* Parser.parse has returned a tree, which loads may have returned as a
\* native value.
Parsed == pc[1] = "parsed" \/ (Done /\ Outcome.status = "returned")

\* C20: the tree of every successful parse has the elements of each array in
\* the order of the text and the entries of each object in the order in which
\* their keys appear, no object of it has two entries with the same key, and
\* the native value loads returns has the same keys, order and values.
C20_InputOrder ==
    (oracle.family = "doc" /\ Parsed)
    => /\ UniqueKeys(ret[1])
       /\ ToNative(ret[1]) = oracle.value
       /\ Done => Outcome.value = ToNative(ret[1])

\* An object with the key b on a number before the key a on a string has
\* been parsed and returned in that order.
C20_Witness ==
    /\ oracle.family = "doc" /\ Done /\ Outcome.status = "returned"
    /\ ret[1].cls = "JsonObject" /\ Len(ret[1].value) = 2
    /\ ret[1].value[1][1] = PyStr(<<98>>) /\ ret[1].value[2][1] = PyStr(<<97>>)
    /\ ret[1].value[1][2].cls = "JsonNumber"
    /\ ret[1].value[2][2].cls = "JsonString"
    /\ Outcome.value.v[1][1] = PyStr(<<98>>) /\ Outcome.value.v[1][2].py = "float"
    /\ Outcome.value.v[2][1] = PyStr(<<97>>) /\ Outcome.value.v[2][2].py = "str"

(***************************************************************************)
(* Number literals, under SpecNumbers                                      *)
(***************************************************************************)

\* The characters of the runs: of the literals of JSON, and the digit
\* U+0662 (ARABIC-INDIC DIGIT TWO); U+00B2 (SUPERSCRIPT TWO) is in two runs.
NumAlphabet ==
    {Ord["0"], Ord["1"], Ord["-"], Ord["+"], Ord["."], Ord["e"], Ord["E"], 1634}

Runs ==
    {<<c>> \o r : c \in {Ord["0"], Ord["1"], Ord["-"]},
                  r \in SeqsUpTo(NumAlphabet, MaxNumLen - 1)}
    \cup { Str(<<"0", ".", "0", ".", "1">>), Str(<<"-", "1", ".", "2", "3", "e", "+", "5">>),
           Str(<<"1", ".", "2", "e", "-", "1", "0">>), Str(<<"1", "9", "0", "E", "7">>),
           <<49, 178>>, <<45, 178, 49>> }

\* Where a run stands: the text before and after it, and what the document
\* is when the run is a number.
NumContext(pre, post, ctx) == [pre |-> pre, post |-> post, ctx |-> ctx]
NumContexts ==
    { NumContext(<<>>, <<>>, "bare"),
      NumContext(<<32, 10, 32>>, <<32>>, "bare"),
      NumContext(Str(<<"[">>), Str(<<"]">>), "array"),
      NumContext(Str(<<"{", "\"", "a", "\"", ":">>), Str(<<"}">>), "object") }

\* The longest prefix of s made of the characters 0-9 . - + e E.
AsciiRun(s) ==
    SubSeq(s, 1, CHOOSE n \in 0..Len(s) :
                   /\ \A k \in 1..n : s[k] \in NumberChars
                   /\ n = Len(s) \/ s[n + 1] \notin NumberChars)

NumberOracle(run, c) ==
    [family |-> "number", numAt |-> Len(c.pre), run |-> run, literal |-> AsciiRun(run),
     ctx |-> c.ctx]

InitNumbers ==
    \E run \in Runs, c \in NumContexts :
        Start(Cat3(c.pre, run, c.post), NumberOracle(run, c))

SpecNumbers == InitNumbers /\ [][Next]_vars

\* -?(0|[1-9][0-9]*)(\.[0-9]+)?([eE][+-]?[0-9]+)? with the digits 0-9 only,
\* part by part.
IsAsciiDigits(s) == s # <<>> /\ \A k \in 1..Len(s) : s[k] \in 48..57
IsJsonInt(s) == IsAsciiDigits(s) /\ (Len(s) = 1 \/ s[1] # Ord["0"])
IsJsonFrac(s) == s = <<>> \/ (s[1] = Ord["."] /\ IsAsciiDigits(Tail(s)))
IsJsonExp(s) ==
    \/ s = <<>>
    \/ /\ s[1] \in {Ord["e"], Ord["E"]}
       /\ \/ IsAsciiDigits(Tail(s))
          \/ Len(s) >= 2 /\ s[2] \in {Ord["+"], Ord["-"]}
                         /\ IsAsciiDigits(SubSeq(s, 3, Len(s)))
IsJsonNumber(s) ==
    \E a \in 0..1, b \in 0..Len(s), c \in 0..Len(s) :
        /\ a <= b /\ b <= c
        /\ a = 1 => s[1] = Ord["-"]
        /\ IsJsonInt(SubSeq(s, a + 1, b))
        /\ IsJsonFrac(SubSeq(s, b + 1, c))
        /\ IsJsonExp(SubSeq(s, c + 1, Len(s)))

Marked(s) == \E k \in 1..Len(s) : s[k] \in {Ord["."], Ord["e"], Ord["E"]}

\* The integer an optional minus sign and digits 0-9 denote.
ExactInt(s) ==
    LET ds == IF s[1] = Ord["-"] THEN Tail(s) ELSE s
        val[k \in 0..Len(ds)] == IF k = 0 THEN 0 ELSE 10 * val[k - 1] + (ds[k] - 48)
    IN  IF s[1] = Ord["-"] THEN 0 - val[Len(ds)] ELSE val[Len(ds)]

\* The number in the value loads returned.
Unwrapped(value, ctx) ==
    IF ctx = "bare" THEN value
    ELSE IF ctx = "array" THEN value.v[1]
    ELSE value.v[1][2]

InvalidNumberAtRun ==
    Raised(InvalidNumberException(oracle.literal, LineOf(Text, oracle.numAt),
                                  ColumnOf(Text, oracle.numAt)))

NumberTokenAtRun(literal) ==
    /\ tokenizer[1].pos = oracle.numAt + Len(literal)
    /\ current_token[1].line = LineOf(Text, oracle.numAt)
    /\ current_token[1].column = ColumnOf(Text, oracle.numAt)

\* C6: where a token starts with a digit or '-', with R the longest run of
\* characters 0-9 . - + e E from there: a Number token is made only if R
\* matches the number pattern over the digits 0-9, and then it is made of
\* exactly R, at the first character of R; if R does not match, loads raises
\* InvalidNumber with the text R at the first character of R, and if R
\* matches it raises no InvalidNumber.
C6_NumberRun ==
    oracle.family = "number"
    => /\ current_token[1].type = "NUMBER"
          => IsJsonNumber(oracle.literal) /\ NumberTokenAtRun(oracle.literal)
       /\ (Done /\ ~IsJsonNumber(oracle.literal)) => Outcome = InvalidNumberAtRun
       /\ (Done /\ IsJsonNumber(oracle.literal))
          => ~(Outcome.status = "raised"
               /\ Outcome.error.kind = "InvalidNumberException")

\* C6 for the runs that no digit of another script and no other character
\* that str.isdigit takes for a digit follows; the document is then read
\* to its end when the run matches.
C6_AsciiNumberRun ==
    (oracle.family = "number" /\ oracle.literal = oracle.run)
    => /\ current_token[1].type = "NUMBER"
          => IsJsonNumber(oracle.literal) /\ NumberTokenAtRun(oracle.literal)
       /\ (Done /\ ~IsJsonNumber(oracle.literal)) => Outcome = InvalidNumberAtRun
       /\ (Done /\ IsJsonNumber(oracle.literal)) => Outcome.status = "returned"

\* A run of digits of two scripts has been read as one Number token.
C6_Witness ==
    /\ oracle.family = "number"
    /\ oracle.literal # oracle.run
    /\ IsJsonNumber(oracle.literal)
    /\ current_token[1].type = "NUMBER"
    /\ tokenizer[1].pos > oracle.numAt + Len(oracle.literal)

\* C7: a Number token holds a float if and only if its literal contains '.',
\* 'e' or 'E', and so does the number in the value loads returns; a literal
\* of digits 0-9 without those holds the integer it denotes.
C7_FloatIffMarked ==
    oracle.family = "number"
    => /\ current_token[1].type = "NUMBER"
          => /\ current_token[1].value.py \in {"int", "float"}
             /\ current_token[1].value.py = "float" <=> Marked(oracle.run)
             /\ (~Marked(oracle.run) /\ oracle.literal = oracle.run)
                => current_token[1].value = PyInt(ExactInt(oracle.run))
       /\ (Done /\ Outcome.status = "returned")
          => /\ Unwrapped(Outcome.value, oracle.ctx).py \in {"int", "float"}
             /\ Unwrapped(Outcome.value, oracle.ctx).py = "float" <=> Marked(oracle.run)
             /\ (~Marked(oracle.run) /\ oracle.literal = oracle.run)
                => Unwrapped(Outcome.value, oracle.ctx) = PyInt(ExactInt(oracle.run))

\* A literal with an exponent and no point has been returned in an object.
C7_Witness ==
    /\ oracle.family = "number" /\ oracle.ctx = "object"
    /\ Done /\ Outcome.status = "returned"
    /\ Unwrapped(Outcome.value, oracle.ctx).py = "float"
    /\ \E k \in 1..Len(oracle.run) : oracle.run[k] = Ord["E"]
    /\ \A k \in 1..Len(oracle.run) : oracle.run[k] # Ord["."]

(***************************************************************************)
(* String literals, under SpecStrings                                      *)
(***************************************************************************)

\* A part of the body of a string literal: its text, what it decodes to, what
\* is wrong with it ("none", "escape" with the character x after the
\* backslash, "unicode"), and whether it can only stand last (a backslash
\* alone, "lone", and a \u with fewer than four characters, "short").
Item(text, decoded, bad, x, last) ==
    [text |-> text, decoded |-> decoded, bad |-> bad, x |-> x, last |-> last]

PlainItems == {Item(<<c>>, <<c>>, "none", 0, "no") : c \in {Ord["a"], Ord["]"], 233}}

SimpleEscapes ==
    { <<QUOTE, 34>>, <<BACKSLASH, 92>>, <<Ord["/"], 47>>, <<Ord["b"], 8>>,
      <<Ord["f"], 12>>, <<Ord["n"], 10>>, <<Ord["r"], 13>>, <<Ord["t"], 9>> }
EscapeItems == {Item(<<BACKSLASH, e[1]>>, <<e[2]>>, "none", 0, "no") : e \in SimpleEscapes}

UnicodeEscapes ==
    { <<Str(<<"0", "0", "4", "1">>), 65>>, <<Str(<<"0", "0", "e", "9">>), 233>>,
      <<Str(<<"A", "b", "C", "d">>), 43981>>, <<Str(<<"0", "0", "2", "2">>), 34>> }
UnicodeItems ==
    {Item(<<BACKSLASH, Ord["u"]>> \o e[1], <<e[2]>>, "none", 0, "no") : e \in UnicodeEscapes}

BadEscapeItems ==
    {Item(<<BACKSLASH, c>>, <<>>, "escape", c, "no") : c \in {Ord["z"], Ord[" "], Ord["U"], LF}}

BadUnicodeItems ==
    {Item(<<BACKSLASH, Ord["u"]>> \o t, <<>>, "unicode", 0, "no") :
        t \in {Str(<<"g", "0", "0", "0">>), Str(<<"0", "0", "g", "0">>),
               Str(<<"+", "1", "2", "3">>)}}

ShortItems ==
    {Item(<<BACKSLASH, Ord["u"]>> \o t, <<>>, "unicode", 0, "short") :
        t \in {<<>>, Str(<<"1", "2">>)}}

LoneBackslash == Item(<<BACKSLASH>>, <<>>, "none", 0, "lone")

Items ==
    PlainItems \cup EscapeItems \cup UnicodeItems \cup BadEscapeItems
    \cup BadUnicodeItems \cup ShortItems \cup {LoneBackslash}

\* The bodies: up to MaxItems items, one that can only stand last standing last.
Bodies ==
    {q \in SeqsUpTo(Items, MaxItems) : \A k \in 1..(Len(q) - 1) : q[k].last = "no"}

RECURSIVE BodyText(_)
BodyText(q) == IF q = <<>> THEN <<>> ELSE Head(q).text \o BodyText(Tail(q))

RECURSIVE BodyDecoded(_)
BodyDecoded(q) == IF q = <<>> THEN <<>> ELSE Head(q).decoded \o BodyDecoded(Tail(q))

\* The first item of q that is wrong, or an item that is not.
FirstBad(q) ==
    IF \E k \in 1..Len(q) : q[k].bad # "none"
    THEN q[CHOOSE k \in 1..Len(q) : q[k].bad # "none" /\ \A j \in 1..(k - 1) : q[j].bad = "none"]
    ELSE LoneBackslash

\* Where a string literal stands.
StrContexts ==
    { NumContext(<<>>, <<>>, "bare"),
      NumContext(<<32, 10, 32>>, <<32>>, "bare"),
      NumContext(Str(<<"[">>), Str(<<"]">>), "array"),
      NumContext(Str(<<"{", "\"", "k", "\"", ":">>), Str(<<"}">>), "object"),
      NumContext(Str(<<"{">>), Str(<<":", "1", "}">>), "key") }

StringOracle(q, c, closed) ==
    [family |-> "string", strAt |-> Len(c.pre), decoded |-> BodyDecoded(q),
     bad |-> FirstBad(q).bad, x |-> FirstBad(q).x, closed |-> closed, ctx |-> c.ctx]

\* The valid parts that stand before and after a raw line feed or carriage
\* return in the body of a closed literal.
RawSides ==
    SeqsUpTo({Item(<<Ord["a"]>>, <<Ord["a"]>>, "none", 0, "no"),
              Item(<<BACKSLASH, Ord["n"]>>, <<10>>, "none", 0, "no")}, 1)

RawOracle(a, raw, b, c) ==
    [family |-> "raw", strAt |-> Len(c.pre), raw |-> raw,
     decoded |-> Cat3(BodyDecoded(a), <<raw>>, BodyDecoded(b)), ctx |-> c.ctx]

InitStrings ==
    \/ \E q \in Bodies, c \in StrContexts :
          \/ /\ IF q = <<>> THEN TRUE ELSE q[Len(q)].last # "lone"
             /\ Start(Cat3(c.pre \o <<QUOTE>>, BodyText(q), <<QUOTE>> \o c.post),
                      StringOracle(q, c, TRUE))
          \/ Start(Cat3(c.pre, <<QUOTE>>, BodyText(q)), StringOracle(q, c, FALSE))
    \/ \E a \in RawSides, b \in RawSides, raw \in {LF, CR}, c \in StrContexts :
          Start(Cat3(c.pre \o <<QUOTE>>, Cat3(BodyText(a), <<raw>>, BodyText(b)),
                     <<QUOTE>> \o c.post),
                RawOracle(a, raw, b, c))

SpecStrings == InitStrings /\ [][Next]_vars

\* The String token of the literal is the current token.
StringTokenAtLiteral ==
    /\ current_token[1].type = "STRING"
    /\ current_token[1].line = LineOf(Text, oracle.strAt)
    /\ current_token[1].column = ColumnOf(Text, oracle.strAt)

\* The value of the document around a string s.
Wrapped(s, ctx) ==
    IF ctx = "bare" THEN s
    ELSE IF ctx = "array" THEN PyList(<<s>>)
    ELSE IF ctx = "object" THEN PyDict(<< <<PyStr(<<Ord["k"]>>), s>> >>)
    ELSE PyDict(<< <<s, PyInt(1)>> >>)

InvalidEscapeMessage ==
    IF oracle.bad = "escape"
    THEN Message("Invalid escape sequence: \\{}", <<>>, <<oracle.x>>)
    ELSE Message("Invalid unicode escape sequence", <<>>, <<>>)

\* C9: a literal in which, after valid parts, a backslash is followed by a
\* character other than " \ / b f n r t u, or \u is not followed by four hex
\* digits, makes loads raise InvalidString with the message of that case, and
\* no String token is made of it.
C9_InvalidEscape ==
    (oracle.family = "string" /\ oracle.bad # "none")
    => /\ ~StringTokenAtLiteral
       /\ Done => /\ Outcome.status = "raised"
                  /\ Outcome.error.kind = "InvalidStringException"
                  /\ Outcome.error.message = InvalidEscapeMessage

\* A \u with two characters left before the end of the input has been refused.
C9_Witness ==
    /\ oracle.family = "string" /\ oracle.bad = "unicode" /\ ~oracle.closed
    /\ Len(Text) >= 4
    /\ SubSeq(Text, Len(Text) - 3, Len(Text)) = Str(<<"\\", "u", "1", "2">>)
    /\ Done /\ Outcome.status = "raised"
    /\ Outcome.error.message = Message("Invalid unicode escape sequence", <<>>, <<>>)

UnterminatedAtQuote ==
    Raised(UnterminatedStringException(LineOf(Text, oracle.strAt),
                                       ColumnOf(Text, oracle.strAt)))

\* C10 as stated: every input that ends before the closing quote of a string
\* makes loads raise UnterminatedString at the opening quote.
C10_AnyUnterminated ==
    (Done /\ oracle.family = "string" /\ ~oracle.closed)
    => Outcome = UnterminatedAtQuote

\* C10 amended: an input that ends before the closing quote of a string, all
\* escapes before the end being valid, the end right after a backslash
\* included, makes loads raise UnterminatedString at the opening quote.
C10_Unterminated ==
    (Done /\ oracle.family = "string" /\ ~oracle.closed /\ oracle.bad = "none")
    => Outcome = UnterminatedAtQuote

\* An input that ends after a backslash, the opening quote on line 2.
C10_Witness ==
    /\ Done /\ oracle.family = "string" /\ ~oracle.closed /\ oracle.bad = "none"
    /\ Text[Len(Text)] = BACKSLASH
    /\ Text[Len(Text) - 1] # BACKSLASH
    /\ Outcome.status = "raised"
    /\ Outcome.error.kind = "UnterminatedStringException"
    /\ Outcome.error.line = 2 /\ Outcome.error.column = 2
    /\ Len(Text) > 5

\* C11: a closed literal with a raw line feed or a raw carriage return in its
\* body makes loads raise an error, and no String token is made of it.
C11_RawRejected ==
    oracle.family = "raw"
    => /\ ~StringTokenAtLiteral
       /\ Done => Outcome.status = "raised"

\* C11 for the raw line feed: loads raises UnterminatedString at the opening
\* quote.
C11_RawLineFeed ==
    (oracle.family = "raw" /\ oracle.raw = LF)
    => /\ ~StringTokenAtLiteral
       /\ Done => Outcome = UnterminatedAtQuote

\* A literal with a raw carriage return between two parts has been returned
\* as an element of an array.
C11_Witness ==
    /\ oracle.family = "raw" /\ oracle.raw = CR /\ oracle.ctx = "array"
    /\ Len(oracle.decoded) = 3
    /\ Done
    /\ Outcome = Returned(Wrapped(PyStr(oracle.decoded), oracle.ctx))

\* The tokenizer of the call before a step: the one Parser.__init__ makes if
\* there is none yet.
\* The line and the column are those of a character of the text, or of the
\* place just past its end.
Designates(text, line, column) ==
    \E at \in 0..Len(text) : LineOf(text, at) = line /\ ColumnOf(text, at) = column

\* C29: every error that loads raises carries a line and a column, both at
\* least 1, that designate a character of the text or the place just past its
\* end; so does InvalidString for an escape, whatever follows the backslash.
C29_ErrorPosition ==
    (Done /\ Outcome.status = "raised")
    => /\ Outcome.error.line >= 1
       /\ Outcome.error.column >= 1
       /\ Designates(Text, Outcome.error.line, Outcome.error.column)

\* C29 but where a line feed follows the backslash of an escape.
C29_ErrorPositionButEscapedLineFeed ==
    (/\ Done /\ Outcome.status = "raised"
     /\ ~(oracle.family = "string" /\ oracle.bad = "escape" /\ oracle.x = LF))
    => /\ Outcome.error.line >= 1
       /\ Outcome.error.column >= 1
       /\ Designates(Text, Outcome.error.line, Outcome.error.column)

\* A line feed follows the backslash: InvalidString is raised with column 0
\* on the line after the backslash.
C29_Witness ==
    /\ Done /\ oracle.family = "string" /\ oracle.bad = "escape"
    /\ Outcome.status = "raised"
    /\ Outcome.error.kind = "InvalidStringException"
    /\ Outcome.error.column = 0
    /\ Outcome.error.line = 2

TokenizerBefore ==
    IF tokenizer[1] = NoTokenizer THEN TokenizerInit(Text) ELSE tokenizer[1]

\* C23: no step of loads follows an error, so that no token is requested
\* and the outcome stays as it is; a step in which the tokenizer is asked for
\* a token and raises ends loads with that very error (kind, detail, line and
\* column); and a step that raises returns no value and leaves every frame.
C23_NoRecovery ==
    [][/\ outcome[1].status = "raised"
          => UNCHANGED <<tokenizer, current_token, stack, ret, pc, outcome>>
       /\ (tokenizer'[1] # tokenizer[1] /\ ParserAdvance(TokenizerBefore).tag = "raise")
          => outcome'[1] = Raised(ParserAdvance(TokenizerBefore).error)
       /\ outcome'[1].status = "raised"
          => /\ outcome'[1].value = PyNone
             /\ pc'[1] = "done"
             /\ stack'[1] = <<>>]_vars

\* The tokenizer has raised on an escape in the value of an object member,
\* after three tokens, and loads has ended with its error and no value.
C23_Witness ==
    /\ Done /\ oracle.family = "string" /\ oracle.bad = "escape" /\ oracle.ctx = "object"
    /\ tokenizer[1].gen = "closed"
    /\ tokenizer[1].yielded = 3 /\ tokenizer[1].resumed = 4
    /\ Outcome.status = "raised"
    /\ Outcome.error.kind = "InvalidStringException"
    /\ Outcome.value = PyNone
    /\ stack[1] = <<>>

(***************************************************************************)
(* Characters between tokens, blank texts and words, under SpecLexer       *)
(***************************************************************************)

\* Two documents as the texts of their tokens, and what they denote.
TokenDoc(tokens, value) == [tokens |-> tokens, value |-> value]

TokenDocs ==
    { TokenDoc(<< Str(<<"{">>), Str(<<"\"", "a", "\"">>), Str(<<":">>), Str(<<"1">>),
                  Str(<<",">>), Str(<<"\"", "b", "\"">>), Str(<<":">>), Str(<<"[">>),
                  Str(<<"t", "r", "u", "e">>), Str(<<",">>), Str(<<"n", "u", "l", "l">>),
                  Str(<<"]">>), Str(<<"}">>) >>,
               PyDict(<< <<PyStr(<<97>>), PyInt(1)>>,
                         <<PyStr(<<98>>), PyList(<<PyBool(TRUE), PyNone>>)>> >>)),
      TokenDoc(<< Str(<<"[">>), Str(<<"-", "2", ".", "5">>), Str(<<",">>), Str(<<"{">>),
                  Str(<<"}">>), Str(<<",">>), Str(<<"\"", "s", "\"">>), Str(<<"]">>) >>,
               PyList(<<PyFloat(TRUE, 25, -1), PyDict(<<>>), PyStr(<<115>>)>>)) }

\* The text of the tokens ts[a..b], sep after each.
RECURSIVE Joined(_, _, _, _)
Joined(ts, a, b, sep) ==
    IF a > b THEN <<>> ELSE ts[a] \o sep \o Joined(ts, a + 1, b, sep)

\* The whitespace of JSON, the other characters str.isspace takes for
\* whitespace, and characters that begin no token.
JsonWhitespace == {32, 9, 10, 13}
OtherSpace == {11, 12, 28, 31, 133, 160}
NoTokenChars == {0, 8, 127, Ord["@"], Ord["#"], Ord["'"], Ord["x"], Ord["T"], Ord["="]}

\* The character c put before token g + 1 of the document (after the last
\* token for g the number of tokens).
BetweenOracle(D, g, c) ==
    [family |-> "between", value |-> D.value, char |-> c,
     at |-> Len(Joined(D.tokens, 1, g, <<>>))]

InitBetween ==
    \E D \in TokenDocs, c \in JsonWhitespace \cup OtherSpace \cup NoTokenChars :
       \E g \in 0..Len(D.tokens) :
          Start(Cat3(Joined(D.tokens, 1, g, <<>>), <<c>>,
                     Joined(D.tokens, g + 1, Len(D.tokens), <<>>)),
                BetweenOracle(D, g, c))

UnexpectedCharacterAt(c, at) ==
    Raised(MalformedJsonException(Message("Unexpected character: '{}'", <<>>, <<c>>),
                                  LineOf(Text, at), ColumnOf(Text, at)))

\* C12: between the tokens of a document, a space, tab, line feed or carriage
\* return is skipped and the document is read as without it; any other
\* character that begins no token is not skipped: loads raises
\* UnexpectedCharacter with that character, at its line and column.
C12_WhitespaceSet ==
    (Done /\ oracle.family = "between")
    => IF oracle.char \in JsonWhitespace
       THEN Outcome = Returned(oracle.value)
       ELSE Outcome = UnexpectedCharacterAt(oracle.char, oracle.at)

\* C12 without the characters that str.isspace, but not JSON, takes for
\* whitespace.
C12_WhitespaceSetButOtherSpace ==
    (Done /\ oracle.family = "between" /\ oracle.char \notin OtherSpace)
    => IF oracle.char \in JsonWhitespace
       THEN Outcome = Returned(oracle.value)
       ELSE Outcome = UnexpectedCharacterAt(oracle.char, oracle.at)

\* A form feed inside a document has been skipped.
C12_Witness ==
    /\ Done /\ oracle.family = "between"
    /\ oracle.char = FF /\ oracle.at > 3
    /\ Outcome = Returned(oracle.value)

MaxBlank == 3

\* The texts of up to MaxBlank characters of whitespace.
InitBlank ==
    \E text \in SeqsUpTo(JsonWhitespace, MaxBlank) :
        Start(text, [family |-> "blank"])

Seps == {<<>>, <<32>>, <<LF, 32>>}

\* Where a document that ends after its token g is left open: after an
\* opener, after a key, after a colon, after a comma or after a member.
CutPoint(D, g) ==
    CASE D.tokens[g] \in {Str(<<"{">>), Str(<<"[">>)} -> "opener"
      [] D.tokens[g] = Str(<<":">>) -> "colon"
      [] D.tokens[g] = Str(<<",">>) -> "comma"
      [] D.tokens[g + 1] = Str(<<":">>) -> "key"
      [] OTHER -> "member"

\* The documents cut after one of their tokens but the last.
InitOpen ==
    \E D \in TokenDocs, sep \in Seps :
       \E g \in 1..(Len(D.tokens) - 1) :
          Start(Joined(D.tokens, 1, g, sep),
                [family |-> "open", cut |-> CutPoint(D, g)])

UnexpectedEndOfInputAtEnd ==
    /\ Outcome.status = "raised"
    /\ Outcome.error.kind = "UnexpectedEndOfInputException"
    /\ Outcome.error.line = LineOf(Text, Len(Text))
    /\ Outcome.error.column = ColumnOf(Text, Len(Text))

\* C15: for a text of well-formed tokens that ends while an object or an
\* array is open (after the opener, a key, a colon, a member or a comma),
\* loads raises UnexpectedEndOfInput.
C15_OpenAtEnd ==
    (Done /\ oracle.family = "open") => UnexpectedEndOfInputAtEnd

\* C15 for the texts that do not end after an object key.
C15_OpenAtEndButKey ==
    (Done /\ oracle.family = "open" /\ oracle.cut # "key")
    => UnexpectedEndOfInputAtEnd

\* A text ending after an object key has been refused with UnexpectedToken.
C15_Witness ==
    /\ Done /\ oracle.family = "open" /\ oracle.cut = "key"
    /\ Outcome = Raised(UnexpectedTokenException("COLON", "EOF",
                                                 LineOf(Text, Len(Text)),
                                                 ColumnOf(Text, Len(Text))))

\* Tokens to put where a separator or a closer stands, with their types.
Replacement(text, type) == [text |-> text, type |-> type]
Replacements ==
    { Replacement(Str(<<",">>), "COMMA"), Replacement(Str(<<":">>), "COLON"),
      Replacement(Str(<<"{">>), "LEFT_BRACE"), Replacement(Str(<<"}">>), "RIGHT_BRACE"),
      Replacement(Str(<<"[">>), "LEFT_BRACKET"), Replacement(Str(<<"]">>), "RIGHT_BRACKET"),
      Replacement(Str(<<"\"", "a", "\"">>), "STRING"), Replacement(Str(<<"7">>), "NUMBER"),
      Replacement(Str(<<"t", "r", "u", "e">>), "TRUE"),
      Replacement(Str(<<"f", "a", "l", "s", "e">>), "FALSE"),
      Replacement(Str(<<"n", "u", "l", "l">>), "NULL") }

\* The opener of the container that token k + 1 of ts stands in, depth
\* containers having been closed between them.
RECURSIVE Encloser(_, _, _)
Encloser(ts, k, depth) ==
    IF ts[k] \in {Str(<<"}">>), Str(<<"]">>)} THEN Encloser(ts, k - 1, depth + 1)
    ELSE IF ts[k] \notin {Str(<<"{">>), Str(<<"[">>)} THEN Encloser(ts, k - 1, depth)
    ELSE IF depth = 0 THEN ts[k]
    ELSE Encloser(ts, k - 1, depth - 1)

\* What the parser expects at token g of the document, for the tokens that
\* follow a key, a member or an element: the colon, or a comma or the closer.
ExpectedAt(D, g) ==
    IF D.tokens[g] = Str(<<":">>) THEN "COLON"
    ELSE IF Encloser(D.tokens, g - 1, 0) = Str(<<"{">>) THEN "',' or '}'"
    ELSE "',' or ']'"

\* The tokens that may stand where expected is expected.
Allowed(expected) ==
    CASE expected = "COLON" -> {"COLON"}
      [] expected = "',' or '}'" -> {"COMMA", "RIGHT_BRACE"}
      [] expected = "',' or ']'" -> {"COMMA", "RIGHT_BRACKET"}

\* The tokens of a document after a key, a member or an element.
SeparatorPlaces(D) ==
    { g \in 2..Len(D.tokens) :
        /\ D.tokens[g] \in {Str(<<":">>), Str(<<",">>), Str(<<"}">>), Str(<<"]">>)}
        /\ D.tokens[g - 1] \notin {Str(<<"{">>), Str(<<"[">>)} }

\* The tokens that a value was made of: one for a literal, and for a
\* container its opener, its closer, its commas, and those of its elements,
\* or of its members with their keys and colons.
RECURSIVE TokensIn(_), ElementTokens(_, _), MemberTokens(_, _)
Commas(n) == IF n = 0 THEN 0 ELSE n - 1
ElementTokens(values, k) ==
    IF k = 0 THEN 0 ELSE TokensIn(values[k]) + ElementTokens(values, k - 1)
MemberTokens(properties, k) ==
    IF k = 0 THEN 0 ELSE 2 + TokensIn(properties[k][2]) + MemberTokens(properties, k - 1)
TokensIn(jv) ==
    IF jv.cls = "JsonArray"
    THEN 2 + Commas(Len(jv.value)) + ElementTokens(jv.value, Len(jv.value))
    ELSE IF jv.cls = "JsonObject"
    THEN 2 + Commas(Len(jv.value)) + MemberTokens(jv.value, Len(jv.value))
    ELSE 1

\* The tokens of a container that lie before the value being read in it: its
\* opener, its elements or members so far with a comma after each, and the key
\* and the colon of the member being read.
Inside(frame) ==
    IF frame.fn = "_parse_array"
    THEN 1 + ElementTokens(frame.elements, Len(frame.elements)) + Len(frame.elements)
    ELSE 1 + MemberTokens(frame.properties, Len(frame.properties))
           + Len(frame.properties) + 2

\* The tokens of a container that lie before the token cur at the test of
\* its loop: no comma lies between the last member and the closer.
AtHead(frame, cur, closer) ==
    IF frame.fn = "_parse_array"
    THEN 1 + ElementTokens(frame.elements, Len(frame.elements))
           + (IF cur.type = closer THEN Commas(Len(frame.elements))
              ELSE Len(frame.elements))
    ELSE 1 + MemberTokens(frame.properties, Len(frame.properties))
           + (IF cur.type = closer THEN Commas(Len(frame.properties))
              ELSE Len(frame.properties))

RECURSIVE InsideAll(_, _)
InsideAll(stk, k) == IF k = 0 THEN 0 ELSE Inside(stk[k]) + InsideAll(stk, k - 1)

\* The tokens that the parse has taken into the values and the frames it
\* holds, which are those it has consumed.
Consumed(i) ==
    CASE pc[i] = "value" -> InsideAll(stack[i], Len(stack[i]))
      [] pc[i] = "array" ->
           InsideAll(stack[i], Len(stack[i]) - 1)
           + AtHead(Top(stack[i]), current_token[i], "RIGHT_BRACKET")
      [] pc[i] = "object" ->
           InsideAll(stack[i], Len(stack[i]) - 1)
           + AtHead(Top(stack[i]), current_token[i], "RIGHT_BRACE")
      [] pc[i] = "colon" -> InsideAll(stack[i], Len(stack[i])) - 1
      [] OTHER -> InsideAll(stack[i], Len(stack[i])) + TokensIn(ret[i])

\* C26: as long as the parse has not failed, every request to the tokenizer
\* was answered by a token, the tokens pulled are one more than the tokens
\* consumed, the token held is the end of the text exactly when the tokenizer
\* has given it, and the tokenizer is never asked again after that.
C26_OneLookahead ==
    (pc[1] # "init" /\ outcome[1].status # "raised")
    => /\ tokenizer[1].yielded = tokenizer[1].resumed
       /\ tokenizer[1].yielded = Consumed(1) + 1
       /\ tokenizer[1].gen # "closed"
       /\ tokenizer[1].gen = "eof" <=> current_token[1].type = "EOF"

\* A document of thirteen tokens was parsed: fourteen tokens were pulled, the
\* last being the end of the text.
C26_Witness ==
    /\ pc[1] = "parsed"
    /\ oracle.family = "layout"
    /\ ret[1].cls = "JsonObject"
    /\ Consumed(1) = 13
    /\ tokenizer[1].yielded = 14 /\ tokenizer[1].resumed = 14
    /\ current_token[1].type = "EOF"

\* The places of a document where an object key may stand: after the opening
\* brace, and after a comma between the members of an object.
KeyPlaces(D) ==
    { g \in 2..Len(D.tokens) :
        \/ D.tokens[g - 1] = Str(<<"{">>)
        \/ D.tokens[g - 1] = Str(<<",">>) /\ Encloser(D.tokens, g - 1, 0) = Str(<<"{">>) }

\* The documents with a token that is neither a string nor a closing brace in
\* the place of an object key.
InitKey ==
    \E D \in TokenDocs, sep \in Seps, r \in Replacements :
       \E g \in KeyPlaces(D) :
          /\ r.type \notin {"STRING", "RIGHT_BRACE"}
          /\ Start(Cat3(Joined(D.tokens, 1, g - 1, sep), r.text \o sep,
                        Joined(D.tokens, g + 1, Len(D.tokens), sep)),
                   [family |-> "key", found |-> r.type, after |-> D.tokens[g - 1],
                    at |-> Len(Joined(D.tokens, 1, g - 1, sep))])

\* C25: a token in the place of an object key, after the opening brace or
\* after a comma, that is neither a string nor a closing brace nor the end of
\* the text makes loads raise UnexpectedToken, expecting a string key and
\* naming the type of the token found, at the line and column of that token.
C25_StringKey ==
    (Done /\ oracle.family = "key")
    => Outcome = Raised(UnexpectedTokenException("String (object key)", oracle.found,
                                                 LineOf(Text, oracle.at),
                                                 ColumnOf(Text, oracle.at)))

\* A number stands where the second key of an object is expected, on the
\* sixth line of the text.
C25_Witness ==
    /\ Done /\ oracle.family = "key"
    /\ oracle.found = "NUMBER" /\ oracle.after = Str(<<",">>)
    /\ Outcome.status = "raised"
    /\ Outcome.error.kind = "UnexpectedTokenException"
    /\ Outcome.error.line = 6 /\ Outcome.error.column = 2
    /\ Len(stack[1]) = 0

\* The documents with another token in the place of a colon, of a comma or
\* of the closer after a member; a number is set apart from the token before
\* it, of which it would else be a part.
InitSwap ==
    \E D \in TokenDocs, sep \in Seps, r \in Replacements :
       \E g \in SeparatorPlaces(D) :
          /\ r.type \notin Allowed(ExpectedAt(D, g))
          /\ r.type = "NUMBER" => sep # <<>>
          /\ Start(Cat3(Joined(D.tokens, 1, g - 1, sep), r.text \o sep,
                        Joined(D.tokens, g + 1, Len(D.tokens), sep)),
                   [family |-> "swap", expected |-> ExpectedAt(D, g), found |-> r.type,
                    at |-> Len(Joined(D.tokens, 1, g - 1, sep))])

\* C16: a token that is neither a comma nor the closer of the container, and
\* is not the end of the text, after a member or an element, and a token that
\* is not a colon after an object key, make loads raise UnexpectedToken with
\* what was expected and the type of the token found, at the line and column
\* of that token.
C16_SeparatorExpected ==
    (Done /\ oracle.family = "swap")
    => Outcome = Raised(UnexpectedTokenException(oracle.expected, oracle.found,
                                                 LineOf(Text, oracle.at),
                                                 ColumnOf(Text, oracle.at)))

\* A number in the place of the second colon of an object, below the second
\* line, has been refused.
C16_Witness ==
    /\ Done /\ oracle.family = "swap"
    /\ oracle.expected = "COLON" /\ oracle.found = "NUMBER"
    /\ Outcome.status = "raised"
    /\ Outcome.error.kind = "UnexpectedTokenException"
    /\ Outcome.error.line > 2 /\ Outcome.error.column = 2

MaxWord == 4

Keywords ==
    {Str(<<"t", "r", "u", "e">>), Str(<<"f", "a", "l", "s", "e">>), Str(<<"n", "u", "l", "l">>)}

\* Runs of letters: the short runs of a few letters, and runs that are near a
\* keyword or made of keywords.
WordLetters == {Ord["t"], Ord["r"], Ord["u"], Ord["e"], Ord["T"]}
Words ==
    (SeqsUpTo(WordLetters, MaxWord) \ {<<>>})
    \cup { Str(<<"n", "u", "l">>), Str(<<"n", "u", "l", "l", "l">>),
           Str(<<"f", "a", "l", "s">>), Str(<<"f", "a", "l", "s", "e", "y">>),
           Str(<<"x", "n", "u", "l", "l">>), Str(<<"N", "U", "L", "L">>),
           Str(<<"t", "r", "u", "e", "x">>),
           Str(<<"t", "r", "u", "e", "n", "u", "l", "l">>),
           Str(<<"t", "r", "u", "e", "t", "r", "u", "e">>),
           Str(<<"n", "u", "l", "l", "f", "a", "l", "s", "e">>),
           Str(<<"f", "a", "l", "s", "e", "t", "r", "u">>),
           Str(<<"t", "r", "u", "e", "n", "u", "l", "l", "x">>) }

\* The keyword that w begins with, <<>> if there is none, and w after it.
LeadingKeyword(w) ==
    IF \E K \in Keywords : Len(K) <= Len(w) /\ SubSeq(w, 1, Len(K)) = K
    THEN CHOOSE K \in Keywords : Len(K) <= Len(w) /\ SubSeq(w, 1, Len(K)) = K
    ELSE <<>>
AfterKeyword(w) == SubSeq(w, Len(LeadingKeyword(w)) + 1, Len(w))

\* A run of letters that is not a keyword, where a value may stand; on is
\* the offset of the first letter that continues no keyword, and twice tells
\* that the run begins with two keywords.
WordOracle(C, w) ==
    [family |-> "word", ctx |-> C.ctx, start |-> Len(C.pre), length |-> Len(w),
     on |-> Len(C.pre) + Len(LeadingKeyword(w)),
     twice |-> LeadingKeyword(w) # <<>> /\ LeadingKeyword(AfterKeyword(w)) # <<>>]

InitWords ==
    \E C \in NumContexts, w \in Words \ Keywords :
        Start(Cat3(C.pre, w, C.post), WordOracle(C, w))

UnexpectedCharacterMessage(c) == Message("Unexpected character: '{}'", <<>>, <<c>>)

\* C17: a run of letters that is not true, false or null makes loads raise
\* UnexpectedCharacter for a letter of the run, and no value is returned.
C17_KeywordsExact ==
    (Done /\ oracle.family = "word")
    => /\ Outcome.status = "raised"
       /\ Outcome.error.kind = "MalformedJsonException"
       /\ \E k \in oracle.start..(oracle.start + oracle.length - 1) :
             /\ Outcome.error.message = UnexpectedCharacterMessage(Text[k + 1])
             /\ Outcome.error.line = LineOf(Text, k)
             /\ Outcome.error.column = ColumnOf(Text, k)

\* C17 with a keyword at the beginning of the run taken for a token: no value
\* is returned, and unless a second keyword follows the first, loads raises
\* UnexpectedCharacter for the first letter after the keyword.
C17_KeywordsExactButTwice ==
    (Done /\ oracle.family = "word")
    => /\ Outcome.status = "raised"
       /\ ~oracle.twice => Outcome = UnexpectedCharacterAt(Text[oracle.on + 1], oracle.on)

\* A run of two keywords in an array, the second of them null, has been
\* refused as a token NULL where a comma or the bracket was expected.
C17_Witness ==
    /\ Done /\ oracle.family = "word" /\ oracle.twice /\ oracle.ctx = "array"
    /\ Outcome = Raised(UnexpectedTokenException("',' or ']'", "NULL", 1, oracle.on + 1))

\* The whitespace before a document and after each of its tokens.
Leads == {<<>>, <<LF, 32>>}
Layouts == {<<>>, <<32>>, <<LF>>, <<LF, 32, 32>>, <<CR, LF>>, <<TAB, LF, LF>>}

\* The offset of the first character of token k of the document, and for k
\* one more than the number of tokens the length of the text.
StartOf(D, lead, sep, k) ==
    IF k > Len(D.tokens) THEN Len(lead) + Len(Joined(D.tokens, 1, Len(D.tokens), sep))
    ELSE Len(lead) + Len(Joined(D.tokens, 1, k - 1, sep))

InitLayout ==
    \E D \in TokenDocs, lead \in Leads, sep \in Layouts :
        Start(lead \o Joined(D.tokens, 1, Len(D.tokens), sep),
              [family |-> "layout", value |-> D.value,
               starts |-> [k \in 1..(Len(D.tokens) + 1) |-> StartOf(D, lead, sep, k)]])

\* The cursor tk is at the line and the column of the character at tk.pos.
CursorExact(tk) ==
    /\ tk.line = LineOf(tk.json_string, tk.pos)
    /\ tk.column = ColumnOf(tk.json_string, tk.pos)

\* C22: the current token, the end of input too, has the line and column of
\* its first character: the line is 1 + the line feeds before it, the column
\* 1 + the characters between it and the line feed before it; the cursor of
\* the tokenizer is at the line and column of its position, and so it is
\* after one, two and three more steps of _advance.
C22_LineColumn ==
    tokenizer[1] # NoTokenizer
    => /\ \A n \in 0..3 : CursorExact(TkAdvance(tokenizer[1], n))
       /\ (oracle.family = "layout" /\ pc[1] # "done")
          => /\ current_token[1].line =
                  LineOf(Text, oracle.starts[tokenizer[1].yielded])
             /\ current_token[1].column =
                  ColumnOf(Text, oracle.starts[tokenizer[1].yielded])

\* The sixth token of a text, a key, is the current token, on the seventh
\* line and in the third column.
C22_Witness ==
    /\ oracle.family = "layout" /\ tokenizer[1] # NoTokenizer
    /\ tokenizer[1].yielded = 6
    /\ current_token[1].type = "STRING"
    /\ current_token[1].line = 7 /\ current_token[1].column = 3

\* The token Parser._advance leaves in current_token when it ends in r.
AdvancedTo(r, token) == r.tag = "yield" /\ r.token = token

\* C13: once the current token is the EOF token, a further call of
\* Parser._advance raises nothing and leaves an EOF token with the same line
\* and column, and so does every call after it; the cursor does not move.
C13_EofIdempotent ==
    (tokenizer[1] # NoTokenizer /\ current_token[1].type = "EOF")
    => /\ AdvancedTo(ParserAdvance(tokenizer[1]), current_token[1])
       /\ AdvancedTo(ParserAdvance(ParserAdvance(tokenizer[1]).tk), current_token[1])
       /\ AdvancedTo(ParserAdvance(ParserAdvance(ParserAdvance(tokenizer[1]).tk).tk),
                     current_token[1])
       /\ ParserAdvance(ParserAdvance(tokenizer[1]).tk).tk.pos = tokenizer[1].pos

\* The EOF token of a document that ends on line 2 is the current token.
C13_Witness ==
    /\ oracle.family = "between" /\ oracle.char = LF
    /\ tokenizer[1] # NoTokenizer /\ current_token[1].type = "EOF"
    /\ current_token[1].line = 2 /\ current_token[1].column > 1
    /\ tokenizer[1].gen = "eof"
    /\ pc[1] = "parsed"

InitLexer ==
    InitBetween \/ InitBlank \/ InitOpen \/ InitSwap \/ InitWords \/ InitLayout
    \/ InitKey

SpecLexer == InitLexer /\ [][Next]_vars

\* The call i of loads can take a step: it is at a place where one of the
\* steps of Construct to LoadsReturn starts.
Runnable(i) ==
    \/ pc[i] \in {"init", "value", "object", "colon", "array", "parsed"}
    \/ /\ pc[i] = "after_value"
       /\ \/ stack[i] = <<>>
          \/ Top(stack[i]).fn \in {"_parse_object", "_parse_array"}

\* A step of a call of loads, as seen on the place of the call, which every
\* step of loads changes.
Places == {"init", "value", "object", "colon", "array", "after_value", "parsed", "done"}
Run ==
    \E i \in Instances : \E p \in Places \ {pc[i]} :
        /\ Runnable(i)
        /\ pc' = [pc EXCEPT ![i] = p]

\* The interpreter goes on with a call that can take a step: loads runs
\* until it returns or raises.
LiveLexer == SpecLexer /\ WF_pc(Run)

\* Where the call is, later places being higher: a step of the parser that
\* asks the tokenizer for nothing moves to a higher place.
Rank(p) ==
    CASE p = "after_value" -> 0
      [] p \in {"array", "object", "colon"} -> 1
      [] p \in {"init", "value"} -> 2
      [] p = "parsed" -> 3
      [] p = "done" -> 4

\* C30: loads ends on every text, with a value or an error.  Each request to
\* the tokenizer moves pos forward, or yields the end of the text, or raises;
\* pos never decreases and never exceeds the length of the text; and every
\* step of the parser, so every turn of the loops of _parse_object and
\* _parse_array, requests a token or moves on to a later place of the call.
C30_Terminates ==
    /\ <>(pc[1] = "done" /\ outcome[1].status \in {"returned", "raised"})
    /\ [][/\ tokenizer'[1].pos >= TokenizerBefore.pos
          /\ tokenizer'[1].pos <= Len(Text)
          /\ tokenizer'[1].resumed > TokenizerBefore.resumed
             => \/ tokenizer'[1].pos > TokenizerBefore.pos
                \/ tokenizer'[1].gen \in {"eof", "closed"}
          /\ pc[1] # "done"
             => \/ /\ pc'[1] # pc[1]
                   /\ \/ tokenizer'[1].resumed > TokenizerBefore.resumed
                      \/ Rank(pc'[1]) > Rank(pc[1])
                \/ <<eq, eager>>' # <<eq, eager>>]_vars

\* An array of three elements in a text of several lines was parsed to its
\* end: nine requests, the last of which gave the end of the text.
C30_Witness ==
    /\ Done /\ oracle.family = "layout"
    /\ Outcome.status = "returned" /\ Outcome.value.py = "list"
    /\ Len(Outcome.value.v) = 3
    /\ tokenizer[1].pos = Len(Text)
    /\ tokenizer[1].line > 1
    /\ tokenizer[1].resumed = 9
    /\ tokenizer[1].gen = "eof"

(***************************************************************************)
(* Deep nesting, under SpecDepth                                           *)
(***************************************************************************)

\* The depths of nesting tried: some below the limit of the interpreter on
\* the frames counted and not counted, and some where the frames counted alone
\* exceed it.
Depths ==
    {2, 5, (RecursionLimit - Headroom) \div 2 - 4,
     RecursionLimit \div 2 - 1, RecursionLimit \div 2 + 2}

\* The text cs, n times.
Repeated(cs, n) == [k \in 1..(n * Len(cs)) |-> cs[((k - 1) % Len(cs)) + 1]]

\* n arrays or objects one inside the other, with inner in the innermost,
\* closed or left open.
DeepOpeners == {Str(<<"[">>), Str(<<"{", "\"", "a", "\"", ":">>)}
DeepCloser(opener) == IF opener = Str(<<"[">>) THEN Str(<<"]">>) ELSE Str(<<"}">>)
DeepInners == {<<>>, Str(<<"1">>), Str(<<"[", "]">>), Str(<<"?">>)}

\* The deepest nesting tried with its containers closed.
MaxClosed == 5

InitDepth ==
    \E n \in Depths, opener \in DeepOpeners, inner \in DeepInners,
       closed \in BOOLEAN :
        /\ closed => n <= MaxClosed
        /\ Start(Cat3(Repeated(opener, n), inner,
                      IF closed THEN Repeated(DeepCloser(opener), n) ELSE <<>>),
                 [family |-> "deep", depth |-> n, closed |-> closed])

SpecDepth == InitDepth /\ [][Next]_vars

\* The kinds of MalformedJsonException and its subclasses.
Taxonomy ==
    {"MalformedJsonException", "UnexpectedTokenException", "InvalidNumberException",
     "InvalidStringException", "UnterminatedStringException",
     "UnexpectedEndOfInputException", "DuplicateKeyException"}

\* loads has returned a value, or raised an error of the taxonomy with a line
\* and a column.
InTaxonomy ==
    \/ Outcome.status = "returned"
    \/ /\ Outcome.status = "raised"
       /\ Outcome.error.kind \in Taxonomy
       /\ Outcome.error.line \in Nat
       /\ Outcome.error.column \in Nat

\* C18: for every text, loads returns a value or raises MalformedJsonException
\* or one of its subclasses, with a line and a column; nothing else escapes.
C18_ClosedTaxonomy ==
    Done => InTaxonomy

\* C18 for the texts whose nesting keeps the call stack below the limit of
\* the interpreter.
C18_ClosedTaxonomyButDepth ==
    (Done /\ oracle.family = "deep"
          /\ Frames(<<>>) + 2 * oracle.depth + Headroom <= RecursionLimit)
    => InTaxonomy

\* A text of more open brackets than half the limit of the interpreter has
\* ended in RecursionError.
C18_Witness ==
    /\ Done /\ oracle.family = "deep"
    /\ 2 * oracle.depth > RecursionLimit
    /\ Text[Len(Text)] = Ord["["]
    /\ Outcome = Raised(RecursionError)

\* C21: a text whose arrays or objects nest deeper than a maximum of the
\* parser is refused with an error of the parser; the call stack is never
\* exhausted.
C21_DepthGuard ==
    (Done /\ oracle.family = "deep" /\ Outcome.status = "raised")
    => Outcome.error.kind \in Taxonomy

\* A text of objects nested deeper than half the limit of the interpreter has
\* exhausted the call stack.
C21_Witness ==
    /\ Done /\ oracle.family = "deep"
    /\ 2 * oracle.depth > RecursionLimit
    /\ Text[1] = Ord["{"]
    /\ Len(stack[1]) = 0
    /\ Outcome.status = "raised"
    /\ Outcome.error.kind = "RecursionError"

(***************************************************************************)
(* Equality of trees, under SpecTrees                                      *)
(***************************************************************************)

\* Texts whose trees are compared with each other.
TreeTexts ==
    { Str(<<"t", "r", "u", "e">>), Str(<<"f", "a", "l", "s", "e">>),
      Str(<<"n", "u", "l", "l">>), Str(<<"1">>), Str(<<"0">>), Str(<<"1", ".", "0">>),
      Str(<<"\"", "1", "\"">>), Str(<<"\"", "a", "\"">>),
      Str(<<"[", "]">>), Str(<<"{", "}">>), Str(<<"[", "1", "]">>),
      Str(<<"[", "t", "r", "u", "e", "]">>), Str(<<"[", "1", ",", "2", "]">>),
      Str(<<"[", "2", ",", "1", "]">>), Str(<<"[", "1", ",", "2", ",", "2", "]">>),
      Str(<<"{", "\"", "a", "\"", ":", "1", "}">>),
      Str(<<"{", "\"", "a", "\"", ":", "t", "r", "u", "e", "}">>),
      Str(<<"{", "\"", "b", "\"", ":", "1", "}">>),
      Str(<<"{", "\"", "a", "\"", ":", "1", ",", "\"", "b", "\"", ":", "[", "2", "]", "}">>),
      Str(<<"{", "\"", "b", "\"", ":", "[", "2", "]", ",", "\"", "a", "\"", ":", "1", "}">>),
      Str(<<"{", "\"", "a", "\"", ":", "[", "2", "]", ",", "\"", "b", "\"", ":", "1", "}">>) }

\* The state before Parser.parse is called on two texts, the calls taking
\* their steps in any order.
InitTrees ==
    \E left \in TreeTexts, right \in TreeTexts :
        /\ json_string = <<left, right>>
        /\ oracle = [family |-> "trees"]
        /\ tokenizer = <<NoTokenizer, NoTokenizer>>
        /\ current_token = <<NoToken, NoToken>>
        /\ stack = << <<>>, <<>> >>
        /\ ret = <<NoValue, NoValue>>
        /\ pc = <<"init", "init">>
        /\ outcome = <<Running, Running>>
        /\ eq = NoComparison
        /\ eager = <<Running, Running>>

SpecTrees == InitTrees /\ [][Next]_vars

\* The value of key in the entries of an object that has it.
EntryOf(properties, key) ==
    properties[CHOOSE k \in 1..Len(properties) : properties[k][1] = key][2]

\* Equality of the leaves of one variant: numbers by their value, the others
\* by their payload.
LeafEq(a, b) ==
    IF a.cls = "JsonNumber" THEN FloatEq(AsFloat(a.value), AsFloat(b.value))
    ELSE a.value = b.value

\* Structural equality of two trees: the same variant, arrays of the same
\* length position by position, objects of the same keys key by key, and
\* equal leaves.
RECURSIVE Structural(_, _)
Structural(a, b) ==
    IF a.cls # b.cls THEN FALSE
    ELSE IF a.cls = "JsonArray"
    THEN /\ Len(a.value) = Len(b.value)
         /\ \A k \in 1..Len(a.value) : Structural(a.value[k], b.value[k])
    ELSE IF a.cls = "JsonObject"
    THEN /\ {a.value[k][1] : k \in 1..Len(a.value)} = {b.value[k][1] : k \in 1..Len(b.value)}
         /\ \A k \in 1..Len(a.value) :
               Structural(a.value[k][2], EntryOf(b.value, a.value[k][1]))
    ELSE LeafEq(a, b)

\* A Bool stands in one tree where a Number stands in the other.
RECURSIVE BoolAgainstNumber(_, _)
BoolAgainstNumber(a, b) ==
    IF {a.cls, b.cls} = {"JsonBoolean", "JsonNumber"} THEN TRUE
    ELSE IF a.cls # b.cls THEN FALSE
    ELSE IF a.cls = "JsonArray"
    THEN \E k \in 1..Len(a.value) :
            k <= Len(b.value) /\ BoolAgainstNumber(a.value[k], b.value[k])
    ELSE IF a.cls = "JsonObject"
    THEN \E k \in 1..Len(a.value) :
            /\ DictHas(b.value, a.value[k][1])
            /\ BoolAgainstNumber(a.value[k][2], EntryOf(b.value, a.value[k][1]))
    ELSE FALSE

Compared == oracle.family = "trees" /\ eq # NoComparison

\* C19: == of two trees is true exactly if they are structurally equal; a
\* Bool and a Number are never equal.
C19_StructuralEq ==
    Compared => (eq.result <=> Structural(ret[eq.left], ret[eq.right]))

\* C19 for the trees in which no Bool stands where the other has a Number.
C19_StructuralEqButBoolNumber ==
    (Compared /\ ~BoolAgainstNumber(ret[eq.left], ret[eq.right]))
    => (eq.result <=> Structural(ret[eq.left], ret[eq.right]))

\* The trees of [true] and [1] have been found equal.
C19_Witness ==
    /\ Compared /\ eq.result
    /\ json_string[eq.left] = Str(<<"[", "t", "r", "u", "e", "]">>)
    /\ json_string[eq.right] = Str(<<"[", "1", "]">>)
    /\ ret[eq.left].cls = "JsonArray"
    /\ ret[eq.left].value[1].cls = "JsonBoolean"
    /\ ret[eq.right].cls = "JsonArray"
    /\ ret[eq.right].value[1].cls = "JsonNumber"

(***************************************************************************)
(* Two runs on one text, under SpecRuns                                    *)
(***************************************************************************)

MaxRunLen == 9

\* Texts that are refused for other reasons than the documents are.
RefusedTexts ==
    { <<>>, Str(<<"@">>), Str(<<"t", "r", "u">>), Str(<<"[", "1", " ", "1", "]">>),
      Str(<<"{", "\"", "a", "\"", " ", "1", "}">>), Str(<<"\"", "\\", "z", "\"">>),
      Str(<<"\"", "\\", "u", "1", "2">>), Str(<<"0", "1">>), <<49, 1634>>, <<49, 178>>,
      Str(<<"[", "1", ",">>), Str(<<"{", "\"", "a", "\"", ":">>), Str(<<"1", " ", "1">>) }

RunTexts == {D.text : D \in {D \in Documents : Len(D.text) <= MaxRunLen}} \cup RefusedTexts

\* The state before loads(text) is called twice, the calls taking their
\* steps in any order.
InitRuns ==
    \E text \in RunTexts :
        /\ json_string = <<text, text>>
        /\ oracle = [family |-> "runs"]
        /\ tokenizer = <<NoTokenizer, NoTokenizer>>
        /\ current_token = <<NoToken, NoToken>>
        /\ stack = << <<>>, <<>> >>
        /\ ret = <<NoValue, NoValue>>
        /\ pc = <<"init", "init">>
        /\ outcome = <<Running, Running>>
        /\ eq = NoComparison
        /\ eager = <<Running, Running>>

\* Texts with what loads ends in on each of them when it runs alone, known
\* from the way the text is made.
Known(text, alone) == [text |-> text, alone |-> alone]
KnownTexts ==
    { Known(Joined(D.tokens, 1, Len(D.tokens), <<>>), Returned(D.value)) : D \in TokenDocs }
    \cup { Known(Str(<<"[", "1", " ", "2", "]">>),
                 Raised(UnexpectedTokenException("',' or ']'", "NUMBER", 1, 4))),
           Known(Str(<<"{", "\"", "a", "\"", " ", "1", "}">>),
                 Raised(UnexpectedTokenException("COLON", "NUMBER", 1, 6))),
           Known(Str(<<"[", "@">>),
                 Raised(MalformedJsonException(
                          Message("Unexpected character: '{}'", <<>>, <<Ord["@"]>>), 1, 2))),
           Known(<<32, LF>>, Raised(UnexpectedEndOfInputException("JSON value", 2, 1))),
           Known(Str(<<"n", "u", "l", "l">>), Returned(PyNone)),
           Known(Str(<<"[", "n", "u", "l", "l", ",", "n", "u", "l", "l", "]">>),
                 Returned(PyList(<<PyNone, PyNone>>))) }

\* The state before loads is called on two texts, each by a Parser and a
\* Tokenizer of its own, the calls taking their steps in any order.
InitPairs ==
    \E left \in KnownTexts, right \in KnownTexts :
        /\ json_string = <<left.text, right.text>>
        /\ oracle = [family |-> "pairs", alone |-> <<left.alone, right.alone>>]
        /\ tokenizer = <<NoTokenizer, NoTokenizer>>
        /\ current_token = <<NoToken, NoToken>>
        /\ stack = << <<>>, <<>> >>
        /\ ret = <<NoValue, NoValue>>
        /\ pc = <<"init", "init">>
        /\ outcome = <<Running, Running>>
        /\ eq = NoComparison
        /\ eager = <<Running, Running>>

SpecRuns == (InitRuns \/ InitPairs) /\ [][Next]_vars

C24_Isolated ==
    oracle.family = "pairs"
    => \A i \in Instances :
          /\ tokenizer[i] # NoTokenizer => tokenizer[i].json_string = json_string[i]
          /\ pc[i] = "done" => outcome[i] = oracle.alone[i]

\* Both calls were at the point of returning at the same time; the first has
\* returned a list and the second an object, each as it does alone.
C24_Witness ==
    /\ oracle.family = "pairs" /\ pc[1] = "done" /\ pc[2] = "done"
    /\ json_string[1] # json_string[2]
    /\ outcome[1] = oracle.alone[1] /\ outcome[2] = oracle.alone[2]
    /\ outcome[1].status = "returned" /\ outcome[1].value.py = "list"
    /\ outcome[2].status = "returned" /\ outcome[2].value.py = "dict"
    /\ tokenizer[1].yielded = 9 /\ tokenizer[2].yielded = 14

(***************************************************************************)
(* Claims on parser.py, under SpecDocuments                                *)
(***************************************************************************)

\* C28: on a text whose first flaw is a key that repeats a key of the object
\* being read, Parser.parse of parser.py raises and returns no object.
C28_EagerStrict ==
    (oracle.family = "doc" /\ oracle.flaw.kind = "dup" /\ eager[1] # Running)
    => eager[1].status = "raised"

\* loads has raised DuplicateKey on the text and Parser.parse of parser.py
\* has returned an object with one member for the two of the text.
C28_Witness ==
    /\ oracle.family = "doc" /\ oracle.flaw.kind = "dup"
    /\ Len(oracle.value.v) = 2
    /\ Outcome.status = "raised"
    /\ Outcome.error.kind = "DuplicateKeyException"
    /\ eager[1].status = "returned"
    /\ eager[1].value.py = "dict"
    /\ Len(eager[1].value.v) = 1

(***************************************************************************)
(* All inputs                                                              *)
(***************************************************************************)

Init ==
    InitDocuments \/ InitNumbers \/ InitStrings \/ InitLexer \/ InitDepth \/ InitTrees
    \/ InitRuns

Spec == Init /\ [][Next]_vars

====
